---------------------------- MODULE Spec2Model ----------------------------
(***************************************************************************)
(* A model of the gaming news digest bot: the deduplicator, the content    *)
(* ranker (classifier, scorer, selector), the pipeline in main.py and the  *)
(* webhook sender's digest delivery.                                       *)
(*                                                                         *)
(* Texts are TLA+ strings; TLC evaluates Len, SubSeq, Head, Tail and \o on *)
(* them.  A content item is a record; the field id stands for the identity *)
(* of the Python dict object (its position in the list it was created in). *)
(* The field absent holds the names of the dict keys the item lacks; a     *)
(* timestamp is <<>> (None), <<t>> (a naive datetime, in hours) or         *)
(* <<t, "aware">> (a timezone-aware datetime).                             *)
(***************************************************************************)
EXTENDS Integers, Sequences, FiniteSets, TLC

VARIABLES
    \* Deduplicator.deduplicate
    items,          \* the argument of deduplicate
    idx,            \* position of the for loop over items
    unique_items,   \* local unique_items
    seen_urls,      \* local seen_urls
    seen_titles,    \* local seen_titles
    dpc,            \* "idle" | "start" | "loop" | "done"
    \* ContentRanker.select_top_items
    pool,           \* the argument items
    count,          \* the argument count
    dist,           \* SOURCE_DISTRIBUTION: source kind -> <<min, max>>
    ranked_items,   \* local ranked_items
    by_source,      \* local by_source
    target_distribution,
    src_i,          \* position of the loop over ["news", "reddit", "youtube"]
    slice,          \* available[:actual_target] of the current source kind
    pos,            \* position of the inner for loop (quota or fill pass)
    selected,       \* local selected
    selected_ids,   \* local selected_ids
    remaining_slots,
    spc,            \* "idle" | "start" | "ranked" | "quota" | "fill" | "sort" | "done"
    \* ContentRanker.rank_content, the loop body on one item
    sc_item,        \* the item
    sc_official,    \* the argument official_sources
    sc_type,        \* content_type
    sc_score,       \* score
    scpc,           \* "idle" | "start" | "typed" | "done"
    \* main.py: aggregate_content_for_game, process_and_rank_content
    all_content,    \* all_content / content
    failed_sources, \* the sources whose fetch raised (history, for the properties)
    unique_content, \* unique_content
    top_items,      \* top_items
    p_ranked,       \* rank_content's ranked_items while its loop runs
    rank_writes,    \* per record: how often content_type and rank_score were set
    pdist,          \* SOURCE_DISTRIBUTION of the run
    ppc,            \* "idle" | "reddit" | "youtube" | "news" | "process" | "select" | "done"
    \* WebhookSender.send_digest
    digest_keys,    \* the keys of game_digests, in dict order
    malformed,      \* the keys whose digest has no "name" or items that
                    \* format_game_message cannot format
    section_order,  \* section_order
    sec_i,          \* position of the loop over section_order
    attempt,        \* attempt of the retry loop
    header_sent,    \* whether the header post succeeded
    attempts,       \* posts made per section (history, for the properties)
    outcome,        \* per section: "none" | "sent" | "failed" | "error"
    send_result,    \* the return value: "none" | "true" | "false"
    wpc,            \* "idle" | "header" | "sections" | "post" | "done"
    \* WebhookSender.format_game_message
    game_name,      \* the argument game_name
    fmt_items,      \* the argument items
    is_trending,    \* the argument is_trending
    message,        \* local message, and the value returned
    fmt_idx,        \* idx of `for idx, item in enumerate(items, 1)`
    fpc             \* "idle" | "start" | "loop" | "done"

dedupVars == <<items, idx, unique_items, seen_urls, seen_titles, dpc>>
selVars == <<pool, count, dist, ranked_items, by_source, target_distribution,
             src_i, slice, pos, selected, selected_ids, remaining_slots, spc>>
scoreVars == <<sc_item, sc_official, sc_type, sc_score, scpc>>
pipeVars == <<all_content, failed_sources, unique_content, top_items, p_ranked,
              rank_writes, pdist, ppc>>
sendVars == <<digest_keys, malformed, section_order, sec_i, attempt,
              header_sent, attempts, outcome, send_result, wpc>>
fmtVars == <<game_name, fmt_items, is_trending, message, fmt_idx, fpc>>
vars == <<dedupVars, selVars, scoreVars, pipeVars, sendVars, fmtVars>>

\* what each function leaves alone
notDedup == <<selVars, scoreVars, pipeVars, sendVars, fmtVars>>
notSel == <<dedupVars, scoreVars, pipeVars, sendVars, fmtVars>>
notScore == <<dedupVars, selVars, pipeVars, sendVars, fmtVars>>
notPipe == <<dedupVars, selVars, scoreVars, sendVars, fmtVars>>
notSend == <<dedupVars, selVars, scoreVars, pipeVars, fmtVars>>
notFmt == <<dedupVars, selVars, scoreVars, pipeVars, sendVars>>

-----------------------------------------------------------------------------
(* Bounds of the model                                                     *)

MaxItems == 3
MaxPool == 3
MaxCount == 4
MaxFetch == 1
MaxGames == 2
MaxMore == 100

-----------------------------------------------------------------------------
(* Text helpers: str.lower, str.strip, the `in` substring test             *)

\* item.get(key, default)
Get(item, key, default) == IF key \in item.absent THEN default ELSE item[key]

Max2(a, b) == IF a >= b THEN a ELSE b
Min2(a, b) == IF a <= b THEN a ELSE b

\* Python's str is a sequence of code points.  A string of this module
\* holds the characters U+0001 to U+00FF (the grave accent U+0060 apart)
\* and, of the characters U+0100 to U+FFFF, those whose code ends in 80 to
\* FF (hexadecimal); the tables below cover the characters among these, as
\* Python 3.11 (Unicode 14.0.0) treats them.

\* the characters of s
CharsOf(s) == {SubSeq(s, j, j) : j \in 1..Len(s)}

\* the function that takes each character of from to the character of
\* to at the same position
CharMap(from, to) ==
    [c \in CharsOf(from) |->
        SubSeq(to, CHOOSE i \in 1..Len(from) : SubSeq(from, i, i) = c,
                   CHOOSE i \in 1..Len(from) : SubSeq(from, i, i) = c)]

\* no value: the result has a character that no string of this module holds
Unheld(c) == CHOOSE x \in {} : x = c

\* str.lower on one character: each capital with its small letter below it
\* (the capital sigma with the small sigma that is not final)
UpperToLower ==
       CharMap("ABCDEFGHIJKLMNOPQRSTUVWXYZÀÁÂÃÄÅÆÇÈÉÊËÌÍ",
               "abcdefghijklmnopqrstuvwxyzàáâãäåæçèéêëìí")
    @@ CharMap("ÎÏÐÑÒÓÔÕÖØÙÚÛÜÝÞƂƄƇƋƎƑƘƠƢƤƦƧƩƬƮƯƱƲƳƵƷƸƼǄ",
               "îïðñòóôõöøùúûüýþƃƅƈƌǝƒƙơƣƥʀƨʃƭʈưʊʋƴƶʒƹƽǆ")
    @@ CharMap("ǅǇǈǊǋǍǏǑǓǕǗǙǛǞǠǢǤǦǨǪǬǮǱǲǴǶǷǸǺǼǾΆΈΉΊΌΎΏΑΒ",
               "ǆǉǉǌǌǎǐǒǔǖǘǚǜǟǡǣǥǧǩǫǭǯǳǳǵƕƿǹǻǽǿάέήίόύώαβ")
    @@ CharMap("ΓΔΕΖΗΘΙΚΛΜΝΞΟΠΡΣΤΥΦΧΨΩΪΫϏϘϚϜϞϠϢϤϦϨϪϬϮϴϷϹ",
               "γδεζηθικλμνξοπρστυφχψωϊϋϗϙϛϝϟϡϣϥϧϩϫϭϯθϸϲ")
    @@ CharMap("ϺҀҊҌҎҐҒҔҖҘҚҜҞҠҢҤҦҨҪҬҮҰҲҴҶҸҺҼҾӀӁӃӅӇӉӋӍӐӒӔ",
               "ϻҁҋҍҏґғҕҗҙқҝҟҡңҥҧҩҫҭүұҳҵҷҹһҽҿӏӂӄӆӈӊӌӎӑӓӕ")
    @@ CharMap("ӖӘӚӜӞӠӢӤӦӨӪӬӮӰӲӴӶӸӺӼӾᎰᎱᎲᎳᎴᎵᎶᎷᎸᎹᎺᎻᎼᎽᎾᎿᏀᏁᏂ",
               "ӗәӛӝӟӡӣӥӧөӫӭӯӱӳӵӷӹӻӽӿꮀꮁꮂꮃꮄꮅꮆꮇꮈꮉꮊꮋꮌꮍꮎꮏꮐꮑꮒ")
    @@ CharMap("ᏃᏄᏅᏆᏇᏈᏉᏊᏋᏌᏍᏎᏏᏐᏑᏒᏓᏔᏕᏖᏗᏘᏙᏚᏛᏜᏝᏞᏟᏠᏡᏢᏣᏤᏥᏦᏧᏨᏩᏪ",
               "ꮓꮔꮕꮖꮗꮘꮙꮚꮛꮜꮝꮞꮟꮠꮡꮢꮣꮤꮥꮦꮧꮨꮩꮪꮫꮬꮭꮮꮯꮰꮱꮲꮳꮴꮵꮶꮷꮸꮹꮺ")
    @@ CharMap("ᏫᏬᏭᏮᏯᏰᏱᏲᏳᏴᏵᲐᲑᲒᲓᲔᲕᲖᲗᲘᲙᲚᲛᲜᲝᲞᲟᲠᲡᲢᲣᲤᲥᲦᲧᲨᲩᲪᲫᲬ",
               "ꮻꮼꮽꮾꮿᏸᏹᏺᏻᏼᏽაბგდევზთიკლმნოპჟრსტუფქღყშჩცძწ")
    @@ CharMap("ᲭᲮᲯᲰᲱᲲᲳᲴᲵᲶᲷᲸᲹᲺᲽᲾᲿẀẂẄẆẈẊẌẎẐẒẔẞẠẢẤẦẨẪẬẮẰẲẴ",
               "ჭხჯჰჱჲჳჴჵჶჷჸჹჺჽჾჿẁẃẅẇẉẋẍẏẑẓẕßạảấầẩẫậắằẳẵ")
    @@ CharMap("ẶẸẺẼẾỀỂỄỆỈỊỌỎỐỒỔỖỘỚỜỞỠỢỤỦỨỪỬỮỰỲỴỶỸỺỼỾᾈᾉᾊ",
               "ặẹẻẽếềểễệỉịọỏốồổỗộớờởỡợụủứừửữựỳỵỷỹỻỽỿᾀᾁᾂ")
    @@ CharMap("ᾋᾌᾍᾎᾏᾘᾙᾚᾛᾜᾝᾞᾟᾨᾩᾪᾫᾬᾭᾮᾯᾸᾹᾼῌῘῙῨῩῬῼↃⒶⒷⒸⒹⒺⒻⒼⒽ",
               "ᾃᾄᾅᾆᾇᾐᾑᾒᾓᾔᾕᾖᾗᾠᾡᾢᾣᾤᾥᾦᾧᾰᾱᾳῃῐῑῠῡῥῳↄⓐⓑⓒⓓⓔⓕⓖⓗ")
    @@ CharMap("ⒾⒿⓀⓁⓂⓃⓄⓅⓆⓇⓈⓉⓊⓋⓌⓍⓎⓏⲀⲂⲄⲆⲈⲊⲌⲎⲐⲒⲔⲖⲘⲚⲜⲞⲠⲢⲤⲦⲨⲪ",
               "ⓘⓙⓚⓛⓜⓝⓞⓟⓠⓡⓢⓣⓤⓥⓦⓧⓨⓩⲁⲃⲅⲇⲉⲋⲍⲏⲑⲓⲕⲗⲙⲛⲝⲟⲡⲣⲥⲧⲩⲫ")
    @@ CharMap("ⲬⲮⲰⲲⲴⲶⲸⲺⲼⲾⳀⳂⳄⳆⳈⳊⳌⳎⳐⳒⳔⳖⳘⳚⳜⳞⳠⳢⳫⳭⳲꚀꚂꚄꚆꚈꚊꚌꚎꚐ",
               "ⲭⲯⲱⲳⲵⲷⲹⲻⲽⲿⳁⳃⳅⳇⳉⳋⳍⳏⳑⳓⳕⳗⳙⳛⳝⳟⳡⳣⳬⳮⳳꚁꚃꚅꚇꚉꚋꚍꚏꚑ")
    @@ CharMap("ꚒꚔꚖꚘꚚꞀꞂꞄꞆꞋꞐꞒꞖꞘꞚꞜꞞꞠꞢꞤꞦꞨꞰꞱꞲꞴꞶꞸꞺꞼꞾꟀꟂꟄꟅꟆꟇꟉꟐꟖ",
               "ꚓꚕꚗꚙꚛꞁꞃꞅꞇꞌꞑꞓꞗꞙꞛꞝꞟꞡꞣꞥꞧꞩʞʇʝꞵꞷꞹꞻꞽꞿꟁꟃꞔʂᶎꟈꟊꟑꟗ")
    @@ CharMap("ꟘꟵ",
               "ꟙꟶ")

\* the capitals whose small letter a string of this module does not hold
LowerUnheld ==
    CharsOf("ƁƆƉƊƏƐƓƔƖƗƜƝƟϽϾϿႠႡႢႣႤႥႦႧႨႩႪႫႬႭႮႯႰႱႲႳႴႵႶႷႸႹႺႻႼႽႾႿჀჁჂჃჄჅჇჍ"
            \o "ᎠᎡᎢᎣᎤᎥᎦᎧᎨᎩᎪᎫᎬᎭᎮᎯᾺΆῈΈῊΉῚΊῪΎῸΌῺΏꞍꞪꞫꞬꞭꞮꞳ")

LowerChar(c) ==
    IF c \in DOMAIN UpperToLower THEN UpperToLower[c]
    ELSE IF c \in LowerUnheld THEN Unheld(c)
    ELSE c

\* the characters with the property Case_Ignorable, and those with the
\* property Cased
CaseIgnorable ==
    CharsOf("'.:^¨­¯´·¸ʰʱʲʳʴʵʶʷʸʹʺʻʼʽʾʿˀˁ˂˃˄˅ˆˇˈˉˊˋˌˍˎˏːˑ˒˓˔˕˖˗˘˙˚˛˜˝"
            \o "˞˟ˠˡˢˣˤ˥˦˧˨˩˪˫ˬ˭ˮ˯˰˱˲˳˴˵˶˷˸˹˺˻˼˽˾˿΄΅·҃҄҅҆҇҈҉֑֖֛֚֒֓֔֕֗֘֙֜"
            \o "ְֱֲֳִֵֶַָׇֹֺֻּֽֿׁׂ֢֣֤֥֦֧֪ׅ֭֮֝֞֟֠֡֨֩֫֬֯ׄ״ۖۗۘۙۚۛۜ۝ۣ۟۠ۡۢۤۥۦ"
            \o "۪ۭۧۨ۫۬ަާިީުޫެޭޮޯް߲߫߬߭߮߯߰߱߳ߴߵߺ߽࢈࢐࢑࢙࢚࢛࢘࢜࢝࢞࢟ࣉ࣏࣐࣑࣒࣓࣊࣋࣌࣍࣎ࣔࣕࣖࣗ"
            \o "ࣘࣙࣚࣛࣜࣝࣞࣟ࣠࣡࣢ࣰࣱࣲࣣࣦࣩ࣭࣮࣯ࣶࣹࣺࣤࣥࣧࣨ࣪࣫࣬ࣳࣴࣵࣷࣸࣻࣼࣽࣾࣿঁ়ুূৃৄ্ৢৣ৾ઁં઼ુૂૃ"
            \o "ૄૅેૈ્ૢૣૺૻૼ૽૾૿ஂீ்ಁ಼ಿೆೌ್ೢೣඁ්ිීුූັິີຶື຺ຸູົຼໆ່້໊໋໌ໍ྄ཱྀྀྂྃ྆྇ྍྎ"
            \o "ྏྐྑྒྒྷྔྕྖྗྙྚྛྜྜྷྞྟྠྡྡྷྣྤྥྦྦྷྨྩྪྫྫྷྭྮྯྰྱྲླྴྵྶྷྸྐྵྺྻྼ࿆ႂႅႆႍႝჼ឴឵ិី"
            \o "ឹឺុូួំ៉៊់៌៍៎៏័៑្៓ៗ៝ᢅᢆᢩᪧ᪵᪶᪷᪸᪹᪺᪽᪰᪱᪲᪳᪴᪻᪼᪾ᪿᫀ᫃᫄᫊᫁᫂᫅᫆᫇᫈᫉᫋ᫌᫍᫎᮀᮁ"
            \o "ᮢᮣᮤᮥᮨᮩ᮫ᮬᮭ᯦ᯨᯩᯭᯯᯰᯱ᳔᳢᳣᳤᳥᳦᳧᳨᳕᳖᳗᳘᳙᳜᳝᳞᳟᳭᳐᳑᳒᳚᳛᳠᳴᳸᳹ᶛᶜᶝᶞᶟᶠᶡᶢᶣᶤᶥᶦᶧ"
            \o "ᶨᶩᶪᶫᶬᶭᶮᶯᶰᶱᶲᶳᶴᶵᶶᶷᶸᶹᶺᶻᶼᶽᶾᶿ᷐᷎᷂᷊᷏᷀᷁᷃᷄᷅᷆᷇᷈᷉᷋᷌᷑᷒ᷓᷔᷕᷖᷗᷘᷙᷚᷛᷜᷝᷞᷟ᷍"
            \o "᷺᷹᷽᷿᷷᷸ᷠᷡᷢᷣᷤᷥᷦᷧᷨᷩᷪᷫᷬᷭᷮᷯᷰᷱᷲᷳᷴ᷵᷻᷾᷶᷼᾽᾿῀῁῍῎῏῝῞῟῭΅`´῾ₐₑₒₓₔₕₖₗₘ"
            \o "ₙₚₛₜ⃒⃓⃘⃙⃚⃐⃑⃔⃕⃖⃗⃛⃜⃝⃞⃟⃠⃡⃢⃣⃤⃥⃦⃪⃫⃨⃬⃭⃮⃯⃧⃩⃰⳯⳰⳱ⷠⷡⷢⷣⷤⷥⷦⷧⷨⷩⷪⷫⷬⷭⷮⷯ"
            \o "゙゚ⷰⷱⷲⷳⷴⷵⷶⷷⷸⷹⷺⷻⷼⷽⷾⷿ゛゜ゝゞーヽヾꓸꓹꓺꓻꓼꓽꚜꚝꚞꚟ꛰꛱ꞈ꞉꞊ꟲꟳꟴꟸꟹ꣄ꣅ꣠꣡꣢꣣꣤꣥꣦꣧꣨"
            \o "꣩꣪꣫꣬꣭꣮꣯꣰꣱ꣿꦀꦁꦂ꦳ꦶꦷꦸꦹꦼꦽꧏꧥꧦꪴꪰꪲꪳꪷꪸꪾ꪿꫁ꫝꫬꫭꫳꫴ꫶ꯥꯨ꯭﮲﮳﮴﮵﮶﮷﮸﮹﮺﮻﮼﮽﮾﮿﯀"
            \o "﯁﯂﻿ﾞﾟ￣￹￺￻")

Cased ==
    CharsOf("ABCDEFGHIJKLMNOPQRSTUVWXYZabcdefghijklmnopqrstuvwxyzªµºÀ"
            \o "ÁÂÃÄÅÆÇÈÉÊËÌÍÎÏÐÑÒÓÔÕÖØÙÚÛÜÝÞßàáâãäåæçèéêëìíîïðñòóôõöøùú"
            \o "ûüýþÿƀƁƂƃƄƅƆƇƈƉƊƋƌƍƎƏƐƑƒƓƔƕƖƗƘƙƚƛƜƝƞƟƠơƢƣƤƥƦƧƨƩƪƫƬƭƮƯưƱƲ"
            \o "ƳƴƵƶƷƸƹƺƼƽƾƿǄǅǆǇǈǉǊǋǌǍǎǏǐǑǒǓǔǕǖǗǘǙǚǛǜǝǞǟǠǡǢǣǤǥǦǧǨǩǪǫǬǭǮǯ"
            \o "ǰǱǲǳǴǵǶǷǸǹǺǻǼǽǾǿʀʁʂʃʄʅʆʇʈʉʊʋʌʍʎʏʐʑʒʓʕʖʗʘʙʚʛʜʝʞʟʠʡʢʣʤʥʦʧʨ"
            \o "ʩʪʫʬʭʮʯʰʱʲʳʴʵʶʷʸˀˁˠˡˢˣˤΆΈΉΊΌΎΏΐΑΒΓΔΕΖΗΘΙΚΛΜΝΞΟΠΡΣΤΥΦΧΨΩΪ"
            \o "ΫάέήίΰαβγδεζηθικλμνξοπρςστυφχψωϊϋόύώϏϐϑϒϓϔϕϖϗϘϙϚϛϜϝϞϟϠϡϢ"
            \o "ϣϤϥϦϧϨϩϪϫϬϭϮϯϰϱϲϳϴϵϷϸϹϺϻϼϽϾϿҀҁҊҋҌҍҎҏҐґҒғҔҕҖҗҘҙҚқҜҝҞҟҠҡҢң"
            \o "ҤҥҦҧҨҩҪҫҬҭҮүҰұҲҳҴҵҶҷҸҹҺһҼҽҾҿӀӁӂӃӄӅӆӇӈӉӊӋӌӍӎӏӐӑӒӓӔӕӖӗӘәӚӛ"
            \o "ӜӝӞӟӠӡӢӣӤӥӦӧӨөӪӫӬӭӮӯӰӱӲӳӴӵӶӷӸӹӺӻӼӽӾӿրցւփքօֆևֈႠႡႢႣႤႥႦႧႨႩႪ"
            \o "ႫႬႭႮႯႰႱႲႳႴႵႶႷႸႹႺႻႼႽႾႿჀჁჂჃჄჅჇჍაბგდევზთიკლმნოპჟრსტუფქღყშჩც"
            \o "ძწჭხჯჰჱჲჳჴჵჶჷჸჹჺჽჾჿᎠᎡᎢᎣᎤᎥᎦᎧᎨᎩᎪᎫᎬᎭᎮᎯᎰᎱᎲᎳᎴᎵᎶᎷᎸᎹᎺᎻᎼᎽᎾᎿᏀᏁᏂᏃᏄ"
            \o "ᏅᏆᏇᏈᏉᏊᏋᏌᏍᏎᏏᏐᏑᏒᏓᏔᏕᏖᏗᏘᏙᏚᏛᏜᏝᏞᏟᏠᏡᏢᏣᏤᏥᏦᏧᏨᏩᏪᏫᏬᏭᏮᏯᏰᏱᏲᏳᏴᏵᏸᏹᏺᏻᏼᏽᲀ"
            \o "ᲁᲂᲃᲄᲅᲆᲇᲈᲐᲑᲒᲓᲔᲕᲖᲗᲘᲙᲚᲛᲜᲝᲞᲟᲠᲡᲢᲣᲤᲥᲦᲧᲨᲩᲪᲫᲬᲭᲮᲯᲰᲱᲲᲳᲴᲵᲶᲷᲸᲹᲺᲽᲾᲿᶀᶁ"
            \o "ᶂᶃᶄᶅᶆᶇᶈᶉᶊᶋᶌᶍᶎᶏᶐᶑᶒᶓᶔᶕᶖᶗᶘᶙᶚᶛᶜᶝᶞᶟᶠᶡᶢᶣᶤᶥᶦᶧᶨᶩᶪᶫᶬᶭᶮᶯᶰᶱᶲᶳᶴᶵᶶᶷᶸᶹ"
            \o "ᶺᶻᶼᶽᶾᶿẀẁẂẃẄẅẆẇẈẉẊẋẌẍẎẏẐẑẒẓẔẕẖẗẘẙẚẛẜẝẞẟẠạẢảẤấẦầẨẩẪẫẬậẮắẰằ"
            \o "ẲẳẴẵẶặẸẹẺẻẼẽẾếỀềỂểỄễỆệỈỉỊịỌọỎỏỐốỒồỔổỖỗỘộỚớỜờỞởỠỡỢợỤụỦủỨứ"
            \o "ỪừỬửỮữỰựỲỳỴỵỶỷỸỹỺỻỼỽỾỿᾀᾁᾂᾃᾄᾅᾆᾇᾈᾉᾊᾋᾌᾍᾎᾏᾐᾑᾒᾓᾔᾕᾖᾗᾘᾙᾚᾛᾜᾝᾞᾟᾠᾡ"
            \o "ᾢᾣᾤᾥᾦᾧᾨᾩᾪᾫᾬᾭᾮᾯᾰᾱᾲᾳᾴᾶᾷᾸᾹᾺΆᾼιῂῃῄῆῇῈΈῊΉῌῐῑῒΐῖῗῘῙῚΊῠῡῢΰῤῥῦῧῨ"
            \o "ῩῪΎῬῲῳῴῶῷῸΌῺΏῼₐₑₒₓₔₕₖₗₘₙₚₛₜↃↄⒶⒷⒸⒹⒺⒻⒼⒽⒾⒿⓀⓁⓂⓃⓄⓅⓆⓇⓈⓉⓊⓋⓌⓍⓎⓏⓐ"
            \o "ⓑⓒⓓⓔⓕⓖⓗⓘⓙⓚⓛⓜⓝⓞⓟⓠⓡⓢⓣⓤⓥⓦⓧⓨⓩⲀⲁⲂⲃⲄⲅⲆⲇⲈⲉⲊⲋⲌⲍⲎⲏⲐⲑⲒⲓⲔⲕⲖⲗⲘⲙⲚⲛⲜⲝⲞ"
            \o "ⲟⲠⲡⲢⲣⲤⲥⲦⲧⲨⲩⲪⲫⲬⲭⲮⲯⲰⲱⲲⲳⲴⲵⲶⲷⲸⲹⲺⲻⲼⲽⲾⲿⳀⳁⳂⳃⳄⳅⳆⳇⳈⳉⳊⳋⳌⳍⳎⳏⳐⳑⳒⳓⳔⳕⳖ"
            \o "ⳗⳘⳙⳚⳛⳜⳝⳞⳟⳠⳡⳢⳣⳤⳫⳬⳭⳮⳲⳳꚀꚁꚂꚃꚄꚅꚆꚇꚈꚉꚊꚋꚌꚍꚎꚏꚐꚑꚒꚓꚔꚕꚖꚗꚘꚙꚚꚛꚜꚝꞀꞁꞂꞃꞄꞅ"
            \o "ꞆꞇꞋꞌꞍꞎꞐꞑꞒꞓꞔꞕꞖꞗꞘꞙꞚꞛꞜꞝꞞꞟꞠꞡꞢꞣꞤꞥꞦꞧꞨꞩꞪꞫꞬꞭꞮꞯꞰꞱꞲꞳꞴꞵꞶꞷꞸꞹꞺꞻꞼꞽꞾꞿꟀꟁ"
            \o "ꟂꟃꟄꟅꟆꟇꟈꟉꟊꟐꟑꟓꟕꟖꟗꟘꟙꟵꟶꟸꟹꟺꮀꮁꮂꮃꮄꮅꮆꮇꮈꮉꮊꮋꮌꮍꮎꮏꮐꮑꮒꮓꮔꮕꮖꮗꮘꮙꮚꮛꮜꮝꮞꮟꮠꮡ"
            \o "ꮢꮣꮤꮥꮦꮧꮨꮩꮪꮫꮬꮭꮮꮯꮰꮱꮲꮳꮴꮵꮶꮷꮸꮹꮺꮻꮼꮽꮾꮿ")

\* the capital sigma at s[i] is final: the nearest character before it that
\* is not case-ignorable is cased, and the nearest such character after it,
\* if there is one, is not
FinalSigma(s, i) ==
    /\ \E j \in 1..(i - 1) :
          /\ SubSeq(s, j, j) \notin CaseIgnorable
          /\ SubSeq(s, j, j) \in Cased
          /\ \A k \in (j + 1)..(i - 1) : SubSeq(s, k, k) \in CaseIgnorable
    /\ ~\E j \in (i + 1)..Len(s) :
          /\ SubSeq(s, j, j) \notin CaseIgnorable
          /\ SubSeq(s, j, j) \in Cased
          /\ \A k \in (i + 1)..(j - 1) : SubSeq(s, k, k) \in CaseIgnorable

\* the lower case of the character s[i] within s
LowerAt(s, i) ==
    IF SubSeq(s, i, i) = "Σ"
    THEN IF FinalSigma(s, i) THEN "ς" ELSE "σ"
    ELSE LowerChar(SubSeq(s, i, i))

\* s[lo..hi] in lower case; the stretch is halved so that the nesting stays
\* shallow on long titles
RECURSIVE LowerRange(_, _, _)
LowerRange(s, lo, hi) ==
    IF lo > hi THEN ""
    ELSE IF lo = hi THEN LowerAt(s, lo)
    ELSE LowerRange(s, lo, (lo + hi) \div 2)
         \o LowerRange(s, (lo + hi) \div 2 + 1, hi)

\* str.lower
Lower(s) == LowerRange(s, 1, Len(s))

\* str.upper on one character: each small letter with its capital below it,
\* then the letters whose upper case has two characters
LowerToUpper ==
       CharMap("abcdefghijklmnopqrstuvwxyzµàáâãäåæçèéêëì",
               "ABCDEFGHIJKLMNOPQRSTUVWXYZΜÀÁÂÃÄÅÆÇÈÉÊËÌ")
    @@ CharMap("íîïðñòóôõöøùúûüýþƃƅƈƌƒƕƙơƣƥƨƭưƴƶƹƽƿǅǆǈǉǋ",
               "ÍÎÏÐÑÒÓÔÕÖØÙÚÛÜÝÞƂƄƇƋƑǶƘƠƢƤƧƬƯƳƵƸƼǷǄǄǇǇǊ")
    @@ CharMap("ǌǎǐǒǔǖǘǚǜǝǟǡǣǥǧǩǫǭǯǲǳǵǹǻǽǿʀʂʃʇʈʊʋʒʝʞάέήί",
               "ǊǍǏǑǓǕǗǙǛƎǞǠǢǤǦǨǪǬǮǱǱǴǸǺǼǾƦꟅƩꞱƮƱƲƷꞲꞰΆΈΉΊ")
    @@ CharMap("αβγδεζηθικλμνξοπρςστυφχψωϊϋόύώϐϑϕϖϗϙϛϝϟϡ",
               "ΑΒΓΔΕΖΗΘΙΚΛΜΝΞΟΠΡΣΣΤΥΦΧΨΩΪΫΌΎΏΒΘΦΠϏϘϚϜϞϠ")
    @@ CharMap("ϣϥϧϩϫϭϯϰϱϲϵϸϻҁҋҍҏґғҕҗҙқҝҟҡңҥҧҩҫҭүұҳҵҷҹһҽ",
               "ϢϤϦϨϪϬϮΚΡϹΕϷϺҀҊҌҎҐҒҔҖҘҚҜҞҠҢҤҦҨҪҬҮҰҲҴҶҸҺҼ")
    @@ CharMap("ҿӂӄӆӈӊӌӎӏӑӓӕӗәӛӝӟӡӣӥӧөӫӭӯӱӳӵӷӹӻӽӿაბგდევზ",
               "ҾӁӃӅӇӉӋӍӀӐӒӔӖӘӚӜӞӠӢӤӦӨӪӬӮӰӲӴӶӸӺӼӾᲐᲑᲒᲓᲔᲕᲖ")
    @@ CharMap("თიკლმნოპჟრსტუფქღყშჩცძწჭხჯჰჱჲჳჴჵჶჷჸჹჺჽჾჿᏸ",
               "ᲗᲘᲙᲚᲛᲜᲝᲞᲟᲠᲡᲢᲣᲤᲥᲦᲧᲨᲩᲪᲫᲬᲭᲮᲯᲰᲱᲲᲳᲴᲵᲶᲷᲸᲹᲺᲽᲾᲿᏰ")
    @@ CharMap("ᏹᏺᏻᏼᏽᶎẁẃẅẇẉẋẍẏẑẓẕạảấầẩẫậắằẳẵặẹẻẽếềểễệỉịọ",
               "ᏱᏲᏳᏴᏵꟆẀẂẄẆẈẊẌẎẐẒẔẠẢẤẦẨẪẬẮẰẲẴẶẸẺẼẾỀỂỄỆỈỊỌ")
    @@ CharMap("ỏốồổỗộớờởỡợụủứừửữựỳỵỷỹỻỽỿᾰᾱιῐῑῠῡῥↄⓐⓑⓒⓓⓔⓕ",
               "ỎỐỒỔỖỘỚỜỞỠỢỤỦỨỪỬỮỰỲỴỶỸỺỼỾᾸᾹΙῘῙῨῩῬↃⒶⒷⒸⒹⒺⒻ")
    @@ CharMap("ⓖⓗⓘⓙⓚⓛⓜⓝⓞⓟⓠⓡⓢⓣⓤⓥⓦⓧⓨⓩⲁⲃⲅⲇⲉⲋⲍⲏⲑⲓⲕⲗⲙⲛⲝⲟⲡⲣⲥⲧ",
               "ⒼⒽⒾⒿⓀⓁⓂⓃⓄⓅⓆⓇⓈⓉⓊⓋⓌⓍⓎⓏⲀⲂⲄⲆⲈⲊⲌⲎⲐⲒⲔⲖⲘⲚⲜⲞⲠⲢⲤⲦ")
    @@ CharMap("ⲩⲫⲭⲯⲱⲳⲵⲷⲹⲻⲽⲿⳁⳃⳅⳇⳉⳋⳍⳏⳑⳓⳕⳗⳙⳛⳝⳟⳡⳣⳬⳮⳳꚁꚃꚅꚇꚉꚋꚍ",
               "ⲨⲪⲬⲮⲰⲲⲴⲶⲸⲺⲼⲾⳀⳂⳄⳆⳈⳊⳌⳎⳐⳒⳔⳖⳘⳚⳜⳞⳠⳢⳫⳭⳲꚀꚂꚄꚆꚈꚊꚌ")
    @@ CharMap("ꚏꚑꚓꚕꚗꚙꚛꞁꞃꞅꞇꞌꞑꞓꞔꞗꞙꞛꞝꞟꞡꞣꞥꞧꞩꞵꞷꞹꞻꞽꞿꟁꟃꟈꟊꟑꟗꟙꟶꮀ",
               "ꚎꚐꚒꚔꚖꚘꚚꞀꞂꞄꞆꞋꞐꞒꟄꞖꞘꞚꞜꞞꞠꞢꞤꞦꞨꞴꞶꞸꞺꞼꞾꟀꟂꟇꟉꟐꟖꟘꟵᎰ")
    @@ CharMap("ꮁꮂꮃꮄꮅꮆꮇꮈꮉꮊꮋꮌꮍꮎꮏꮐꮑꮒꮓꮔꮕꮖꮗꮘꮙꮚꮛꮜꮝꮞꮟꮠꮡꮢꮣꮤꮥꮦꮧꮨ",
               "ᎱᎲᎳᎴᎵᎶᎷᎸᎹᎺᎻᎼᎽᎾᎿᏀᏁᏂᏃᏄᏅᏆᏇᏈᏉᏊᏋᏌᏍᏎᏏᏐᏑᏒᏓᏔᏕᏖᏗᏘ")
    @@ CharMap("ꮩꮪꮫꮬꮭꮮꮯꮰꮱꮲꮳꮴꮵꮶꮷꮸꮹꮺꮻꮼꮽꮾꮿ",
               "ᏙᏚᏛᏜᏝᏞᏟᏠᏡᏢᏣᏤᏥᏦᏧᏨᏩᏪᏫᏬᏭᏮᏯ")
    @@ ("ß" :> "SS") @@ ("ẚ" :> "Aʾ") @@ ("ᾲ" :> "ᾺΙ") @@ ("ᾳ" :> "ΑΙ")
    @@ ("ᾴ" :> "ΆΙ") @@ ("ᾼ" :> "ΑΙ") @@ ("ῂ" :> "ῊΙ") @@ ("ῃ" :> "ΗΙ")
    @@ ("ῄ" :> "ΉΙ") @@ ("ῌ" :> "ΗΙ") @@ ("ῲ" :> "ῺΙ") @@ ("ῳ" :> "ΩΙ")
    @@ ("ῴ" :> "ΏΙ") @@ ("ῼ" :> "ΩΙ")

\* the letters whose capital a string of this module does not hold
UpperUnheld ==
    CharsOf("ÿƀƚƞǰʉʌΐΰϳրցւփքօֆևᲀᲁᲂᲃᲄᲅᲆᲇᲈẖẗẘẙẛᾀᾁᾂᾃᾄᾅᾆᾇᾈᾉᾊᾋᾌᾍᾎᾏᾐᾑᾒᾓᾔᾕᾖᾗ"
            \o "ᾘᾙᾚᾛᾜᾝᾞᾟᾠᾡᾢᾣᾤᾥᾦᾧᾨᾩᾪᾫᾬᾭᾮᾯᾶᾷῆῇῒΐῖῗῢΰῤῦῧῶῷ")

UpperChar(c) ==
    IF c \in DOMAIN LowerToUpper THEN LowerToUpper[c]
    ELSE IF c \in UpperUnheld THEN Unheld(c)
    ELSE c

\* str.upper
RECURSIVE Upper(_)
Upper(s) ==
    IF Len(s) = 0 THEN ""
    ELSE IF Len(s) = 1 THEN UpperChar(s)
    ELSE Upper(SubSeq(s, 1, Len(s) \div 2))
         \o Upper(SubSeq(s, Len(s) \div 2 + 1, Len(s)))

\* the characters str.strip() removes: blank, tab, line feed, carriage
\* return and form feed; the characters with the codes 11, 28, 29, 30 and
\* 31; and U+0085, U+00A0 and U+1680
IsSpace(c) ==
    c \in {" ", "\t", "\n", "\r", "\f",
           "", "", "", "", "",
           "", " ", " "}

\* the positions of s that hold no such character
Inked(s) == {i \in 1..Len(s) : ~IsSpace(SubSeq(s, i, i))}

LStrip(s) ==
    LET inked == Inked(s)
    IN  IF inked = {} THEN ""
        ELSE SubSeq(s, CHOOSE i \in inked : \A j \in inked : i <= j, Len(s))

RStrip(s) ==
    LET inked == Inked(s)
    IN  IF inked = {} THEN ""
        ELSE SubSeq(s, 1, CHOOSE i \in inked : \A j \in inked : i >= j)

Strip(s) == RStrip(LStrip(s))

\* Python's  sub in s
Contains(s, sub) ==
    \E i \in 1..(Len(s) - Len(sub) + 1) : SubSeq(s, i, i + Len(sub) - 1) = sub

-----------------------------------------------------------------------------
(* difflib.SequenceMatcher(None, a, b).ratio(), as used by the             *)
(* deduplicator: isjunk is None, autojunk is on.                           *)

\* how often c occurs in b
CountOf(b, c) == Cardinality({j \in 1..Len(b) : SubSeq(b, j, j) = c})

\* __chain_b: when b has 200 or more characters, a character that occurs
\* more than len(b) // 100 + 1 times is popular and is left out of b2j
AutojunkLength == 200
Popular(b) ==
    IF Len(b) < AutojunkLength THEN {}
    ELSE {c \in CharsOf(b) : CountOf(b, c) > Len(b) \div 100 + 1}

\* the number of leading positions t < m at which a[i + step*t] and
\* b[j + step*t] are the same character, not in `skip`; the stretch is
\* halved so that the nesting stays shallow on long titles
RECURSIVE SameRun(_, _, _, _, _, _, _)
SameRun(a, b, i, j, step, m, skip) ==
    IF m <= 0 THEN 0
    ELSE IF m = 1
    THEN IF /\ SubSeq(a, i, i) = SubSeq(b, j, j)
            /\ SubSeq(b, j, j) \notin skip
         THEN 1 ELSE 0
    ELSE IF SameRun(a, b, i, j, step, m \div 2, skip) < m \div 2
    THEN SameRun(a, b, i, j, step, m \div 2, skip)
    ELSE m \div 2 + SameRun(a, b, i + step * (m \div 2), j + step * (m \div 2),
                            step, m - m \div 2, skip)

\* length of the common run of a and b that starts at a[i], b[j] and stays
\* within a[..ahi], b[..bhi]
RunLen(a, b, i, j, ahi, bhi) ==
    SameRun(a, b, i, j, 1, Min2(ahi - i + 1, bhi - j + 1), {})

\* the same, backwards from a[i], b[j] down to a[alo..], b[blo..]
RunLenBack(a, b, i, j, alo, blo) ==
    SameRun(a, b, i, j, -1, Min2(i - alo + 1, j - blo + 1), {})

\* the runs that the j2len loop counts, <<i, j, k>> for the run of length k
\* from a[i], b[j]: as RunLen, but b[j] is in b2j and the run also ends at a
\* character of b that is not
CoreRuns(a, b, alo, ahi, blo, bhi) ==
    UNION {{<<i, j, SameRun(a, b, i, j, 1, Min2(ahi - i + 1, bhi - j + 1), popular)>> :
                i \in alo..ahi,
                j \in {n \in blo..bhi : SubSeq(b, n, n) \notin popular}} :
           popular \in {Popular(b)}}

\* besti, bestj, bestsize after the loop: of the longest runs the one that
\* starts earliest in a, and of those the one that starts earliest in b;
\* <<alo, blo, 0>> when there is none
LongestRun(runs, alo, blo) ==
    IF \A c \in runs : c[3] = 0 THEN <<alo, blo, 0>>
    ELSE CHOOSE c \in runs :
            \A d \in runs :
                \/ c[3] > d[3]
                \/ c[3] = d[3] /\ c[1] < d[1]
                \/ c[3] = d[3] /\ c[1] = d[1] /\ c[2] <= d[2]

\* the two while loops after it: the block is extended to both sides by
\* matching characters (there is no junk)
Extended(a, b, alo, ahi, blo, bhi, m) ==
    << m[1] - RunLenBack(a, b, m[1] - 1, m[2] - 1, alo, blo),
       m[2] - RunLenBack(a, b, m[1] - 1, m[2] - 1, alo, blo),
       m[3] + RunLenBack(a, b, m[1] - 1, m[2] - 1, alo, blo)
            + RunLen(a, b, m[1] + m[3], m[2] + m[3], ahi, bhi) >>

\* find_longest_match(alo, ahi, blo, bhi): <<i, j, k>>, k = 0 when nothing
\* matches
FindLongestMatch(a, b, alo, ahi, blo, bhi) ==
    CHOOSE m \in {Extended(a, b, alo, ahi, blo, bhi, LongestRun(runs, alo, blo)) :
                    runs \in {CoreRuns(a, b, alo, ahi, blo, bhi)}} : TRUE

\* the total size of get_matching_blocks: the longest match, then the same
\* to its left and to its right
RECURSIVE MatchingSize(_, _, _, _, _, _)
MatchingSize(a, b, alo, ahi, blo, bhi) ==
    IF alo > ahi \/ blo > bhi THEN 0
    ELSE LET m == FindLongestMatch(a, b, alo, ahi, blo, bhi)
         IN  IF m[3] = 0 THEN 0
             ELSE m[3]
                  + MatchingSize(a, b, alo, m[1] - 1, blo, m[2] - 1)
                  + MatchingSize(a, b, m[1] + m[3], ahi, m[2] + m[3], bhi)

\* ratio() = 2.0 * matches / (len(a) + len(b)), 1.0 when both are empty;
\* kept exact as the pair <<numerator, denominator>>
Ratio(a, b) ==
    LET total == Len(a) + Len(b)
    IN  IF total = 0 THEN <<1, 1>>
        ELSE <<2 * MatchingSize(a, b, 1, Len(a), 1, Len(b)), total>>

-----------------------------------------------------------------------------
(* processors/deduplicator.py                                              *)

\* similarity_threshold = 0.85, as the fraction ThresholdNum / ThresholdDen
ThresholdNum == 85
ThresholdDen == 100

NormTitle(t) == Strip(Lower(t))

\* A variant of the comparison with one defect: the threshold is exclusive
are_titles_similar_above(title1, title2) ==
    LET t1 == NormTitle(title1)
        t2 == NormTitle(title2)
        r  == Ratio(t1, t2)
    IN  IF t1 = t2 THEN TRUE
        ELSE r[1] * ThresholdDen > ThresholdNum * r[2]

are_titles_similar(title1, title2) ==
    LET t1 == NormTitle(title1)
        t2 == NormTitle(title2)
        r  == Ratio(t1, t2)
    IN  IF t1 = t2 THEN TRUE
        ELSE r[1] * ThresholdDen >= ThresholdNum * r[2]

\* item.get("url", "")
UrlOrEmpty(item) == Get(item, "url", "")

\* `if url and url in seen_urls`
UrlSeen(urls, item) == UrlOrEmpty(item) # "" /\ UrlOrEmpty(item) \in urls

\* the inner loop over seen_titles
TitleSeen(titles, item) ==
    \E k \in 1..Len(titles) : are_titles_similar(Get(item, "title", ""), titles[k])

DedupStart == [unique |-> <<>>, urls |-> {}, titles |-> <<>>]

\* Variants of the loop body, each with one defect, used to show that the
\* properties below depend on the loop body.
\* (a) a similar title replaces the kept item instead of being dropped
DedupStepKeepLast(st, item) ==
    IF UrlSeen(st.urls, item) THEN st
    ELSE IF TitleSeen(st.titles, item)
    THEN LET k == CHOOSE n \in 1..Len(st.titles) :
                    /\ are_titles_similar(Get(item, "title", ""), st.titles[n])
                    /\ \A m \in 1..(n - 1) : ~are_titles_similar(Get(item, "title", ""), st.titles[m])
         IN  [unique |-> [st.unique EXCEPT ![k] = item],
              urls   |-> st.urls,
              titles |-> [st.titles EXCEPT ![k] = Get(item, "title", "")]]
    ELSE [unique |-> Append(st.unique, item),
          urls   |-> IF UrlOrEmpty(item) # "" THEN st.urls \cup {UrlOrEmpty(item)}
                     ELSE st.urls,
          titles |-> Append(st.titles, Get(item, "title", ""))]

\* (b) a kept item is put at the front of unique_items
DedupStepPrepend(st, item) ==
    IF UrlSeen(st.urls, item) THEN st
    ELSE IF TitleSeen(st.titles, item) THEN st
    ELSE [unique |-> <<item>> \o st.unique,
          urls   |-> IF UrlOrEmpty(item) # "" THEN st.urls \cup {UrlOrEmpty(item)}
                     ELSE st.urls,
          titles |-> Append(st.titles, Get(item, "title", ""))]

\* (c) the title check is made only for items whose URL is empty
DedupStepUrlOnly(st, item) ==
    IF UrlSeen(st.urls, item) THEN st
    ELSE IF UrlOrEmpty(item) = "" /\ TitleSeen(st.titles, item) THEN st
    ELSE [unique |-> Append(st.unique, item),
          urls   |-> IF UrlOrEmpty(item) # "" THEN st.urls \cup {UrlOrEmpty(item)}
                     ELSE st.urls,
          titles |-> Append(st.titles, Get(item, "title", ""))]

\* (d) the URL of a kept item is not recorded
DedupStepForgetsUrl(st, item) ==
    IF UrlSeen(st.urls, item) THEN st
    ELSE IF TitleSeen(st.titles, item) THEN st
    ELSE [unique |-> Append(st.unique, item),
          urls   |-> st.urls,
          titles |-> Append(st.titles, Get(item, "title", ""))]

\* (e) the title of an item dropped for its title is recorded all the same
DedupStepRemembersDropped(st, item) ==
    IF UrlSeen(st.urls, item) THEN st
    ELSE IF TitleSeen(st.titles, item)
    THEN [st EXCEPT !.titles = Append(st.titles, Get(item, "title", ""))]
    ELSE [unique |-> Append(st.unique, item),
          urls   |-> IF UrlOrEmpty(item) # "" THEN st.urls \cup {UrlOrEmpty(item)}
                     ELSE st.urls,
          titles |-> Append(st.titles, Get(item, "title", ""))]

\* one iteration of the for loop of deduplicate
DedupStep(st, item) ==
    IF UrlSeen(st.urls, item) THEN st
    ELSE IF TitleSeen(st.titles, item) THEN st
    ELSE [unique |-> Append(st.unique, item),
          urls   |-> IF UrlOrEmpty(item) # "" THEN st.urls \cup {UrlOrEmpty(item)}
                     ELSE st.urls,
          titles |-> Append(st.titles, Get(item, "title", ""))]

RECURSIVE DedupFrom(_, _, _)
DedupFrom(st, xs, i) ==
    IF i > Len(xs) THEN st ELSE DedupFrom(DedupStep(st, xs[i]), xs, i + 1)

\* deduplicate(items), the whole call
Deduplicate(xs) == IF xs = <<>> THEN <<>> ELSE DedupFrom(DedupStart, xs, 1).unique


-----------------------------------------------------------------------------
(* Content items                                                           *)

\* a content record as the fetchers build it, with every key present
\* (timestamp: <<>> for None, <<t>> for the hour t)
MkItem(id, title, url, source_type, score, timestamp, source, description) ==
    [id |-> id, title |-> title, url |-> url, source_type |-> source_type,
     score |-> score, timestamp |-> timestamp, source |-> source,
     description |-> description, absent |-> {}]

\* the same dict without the key
DropKey(item, key) == [item EXCEPT !.absent = @ \cup {key}]

\* the inputs of the deduplicator's runs: titles that are equal after
\* normalisation ("abc", " ABC"), similar ("abc"/"abcd", "abcd"/"bcd") and
\* dissimilar ("abc"/"bcd", "xy"), with an empty and two non-empty URLs.
\* (Titles outside ASCII are among the pairs of SpecPair.)
DedupTitles == {"abc", " ABC", "abcd", "bcd", "xy"}
DedupUrls == {"", "u1", "u2"}

DedupInputs(n) ==
    {[i \in 1..n |-> MkItem(i, f[i][1], f[i][2], "news", 0, <<>>, "IGN", "")] :
        f \in [1..n -> DedupTitles \X DedupUrls]}

-----------------------------------------------------------------------------
(* config.py                                                               *)

PREFERRED_CONTENT_AGE_HOURS == 24
FALLBACK_CONTENT_AGE_HOURS == 72
ITEMS_PER_GAME == 5
MAX_RETRIES == 3

\* PRIORITY_WEIGHTS
PRIORITY_WEIGHTS ==
    [official |-> 100, major_news |-> 75, community |-> 50, discussion |-> 25]

-----------------------------------------------------------------------------
(* processors/content_ranker.py: classifier and scorer                     *)

official_keywords ==
    {"patch", "update", "announcement", "release", "launch",
     "developer", "official", "confirmed"}
major_outlets == {"ign", "kotaku", "pc gamer", "polygon", "eurogamer", "vg247"}
trusted_channels == {"ign", "gamespot", "eurogamer", "pc gamer", "polygon"}

\* A variant of the classifier with one defect: the forum threshold is
\* inclusive
determine_content_type_at_500(item, official_sources) ==
    LET title == Lower(Get(item, "title", ""))
        source == Lower(Get(item, "source", ""))
        description == Lower(Get(item, "description", ""))
        content == title \o " " \o source \o " " \o description
    IN  IF \E official \in official_sources : Contains(content, Lower(official))
        THEN "official"
        ELSE IF \E keyword \in official_keywords : Contains(title, keyword)
        THEN "official"
        ELSE IF Get(item, "source_type", "") = "news"
                /\ \E outlet \in major_outlets : Contains(source, outlet)
        THEN "major_news"
        ELSE IF Get(item, "source_type", "") = "youtube"
        THEN IF \E channel \in trusted_channels : Contains(source, channel)
             THEN "major_news"
             ELSE "community"
        ELSE IF Get(item, "source_type", "") = "reddit"
        THEN IF Get(item, "score", 0) >= 500 THEN "community" ELSE "discussion"
        ELSE "discussion"

determine_content_type(item, official_sources) ==
    LET title == Lower(Get(item, "title", ""))
        source == Lower(Get(item, "source", ""))
        description == Lower(Get(item, "description", ""))
        content == title \o " " \o source \o " " \o description
    IN  IF \E official \in official_sources : Contains(content, Lower(official))
        THEN "official"
        ELSE IF \E keyword \in official_keywords : Contains(title, keyword)
        THEN "official"
        ELSE IF Get(item, "source_type", "") = "news"
                /\ \E outlet \in major_outlets : Contains(source, outlet)
        THEN "major_news"
        ELSE IF Get(item, "source_type", "") = "youtube"
        THEN IF \E channel \in trusted_channels : Contains(source, channel)
             THEN "major_news"
             ELSE "community"
        ELSE IF Get(item, "source_type", "") = "reddit"
        THEN IF Get(item, "score", 0) > 500 THEN "community" ELSE "discussion"
        ELSE "discussion"

\* A score is a Python float (an IEEE double).  It is held as the pair
\* <<units, ulps>>: the double nearest to units / ScoreScale, moved by ulps
\* units in the last place.  The three summands are exact multiples of
\* 1 / ScoreScale (engagement / 10000 and engagement / 100 are); ulps is what
\* the roundings of the division and of the two additions leave.
ScoreScale == 10000

\* x < y on two scores
ScoreBelow(x, y) == x[1] < y[1] \/ (x[1] = y[1] /\ x[2] < y[2])

\* datetime.utcnow() at scoring time, in hours
NowHour == 1000

\* A variant of the weight lookup with one defect: the key is never found
BaseScoreNoWeight(content_type) == 0

\* self.weights.get(content_type, 0)
BaseScore(content_type) ==
    IF content_type \in DOMAIN PRIORITY_WEIGHTS
    THEN PRIORITY_WEIGHTS[content_type] * ScoreScale
    ELSE 0

\* min(engagement / 10000, 20) for youtube, min(engagement / 100, 20) for
\* reddit, 0 otherwise
EngagementBoost(item) ==
    IF Get(item, "source_type", "") = "youtube" THEN Min2(Get(item, "score", 0), 20 * ScoreScale)
    ELSE IF Get(item, "source_type", "") = "reddit" THEN Min2(Get(item, "score", 0) * 100, 20 * ScoreScale)
    ELSE 0

\* the outcome of an operation that raises TypeError
TypeError == <<"TypeError">>

\* the timestamp is a timezone-aware datetime
TimestampAware(item) == Len(Get(item, "timestamp", <<>>)) = 2

\* A variant of the recency boost with one defect: the first threshold is
\* exclusive
RecencyBoostStrict(item) ==
    IF Get(item, "timestamp", <<>>) = <<>> THEN 0
    ELSE IF TimestampAware(item) THEN TypeError
    ELSE LET hours_old == NowHour - Get(item, "timestamp", <<>>)[1]
         IN  IF hours_old < PREFERRED_CONTENT_AGE_HOURS THEN 25 * ScoreScale
             ELSE IF hours_old <= FALLBACK_CONTENT_AGE_HOURS THEN 10 * ScoreScale
             ELSE 0

\* recency_boost stays 0 when the item has no timestamp; utcnow() minus a
\* timezone-aware timestamp raises TypeError
RecencyBoost(item) ==
    IF Get(item, "timestamp", <<>>) = <<>> THEN 0
    ELSE IF TimestampAware(item) THEN TypeError
    ELSE LET hours_old == NowHour - Get(item, "timestamp", <<>>)[1]
         IN  IF hours_old <= PREFERRED_CONTENT_AGE_HOURS THEN 25 * ScoreScale
             ELSE IF hours_old <= FALLBACK_CONTENT_AGE_HOURS THEN 10 * ScoreScale
             ELSE 0

Abs(n) == IF n < 0 THEN -n ELSE n

RECURSIVE Pow2(_)
Pow2(n) == IF n <= 0 THEN 1 ELSE 2 * Pow2(n - 1)

\* d without its factors 2: n / d is a binary fraction, and so a double
\* without rounding, exactly when OddPart(d) divides n
RECURSIVE OddPart(_)
OddPart(d) == IF d % 2 = 0 THEN OddPart(d \div 2) ELSE d

RECURSIVE FloorLog2(_)
FloorLog2(n) == IF n < 2 THEN 0 ELSE 1 + FloorLog2(n \div 2)

RECURSIVE ShiftsToReach(_, _)
ShiftsToReach(n, d) == IF 2 * n >= d THEN 1 ELSE 1 + ShiftsToReach(2 * n, d)

\* the binary exponent of n / d: floor(log2(n / d)), for n, d > 0
Exponent(n, d) == IF n >= d THEN FloorLog2(n \div d) ELSE -ShiftsToReach(n, d)

\* `steps` further binary digits of a quotient by d, eight at a time: low
\* holds its digits so far modulo w, rem the remainder
RECURSIVE Expand(_, _, _, _, _)
Expand(low, rem, d, w, steps) ==
    IF steps = 0 THEN <<low, rem>>
    ELSE LET p == Pow2(Min2(steps, 8))
         IN  Expand((low * p + (p * rem) \div d) % w, (p * rem) % d, d, w,
                    steps - Min2(steps, 8))

\* Rounding to the nearest multiple of 2^h, as the offset to add.
\* RoundReal: of a number that lies strictly between two integers, given
\* the low digits of the integer below it and whether it is above the
\* middle of the two.  RoundGrid: of an integer v, ties to the even multiple.
RoundReal(low, above, h) ==
    LET s == low % Pow2(h)
    IN  IF h = 0 THEN IF above THEN 1 ELSE 0
        ELSE IF s >= Pow2(h - 1) THEN Pow2(h) - s
        ELSE -s

RoundGrid(v, h) ==
    LET s == v % Pow2(h)
        even == (v \div Pow2(h)) % 2 = 0
        half == Pow2(h - 1)
    IN  IF s = 0 THEN 0
        ELSE IF s < half \/ (s = half /\ even) THEN -s
        ELSE Pow2(h) - s

\* (base + n / d) + recency in double arithmetic, as the number of units in
\* the last place by which it differs from the double nearest to the exact
\* sum.  Each double has 53 binary digits: n / d is rounded at the exponent
\* of n / d, the first sum at the exponent of base + n / d, the second at
\* the exponent of the total; a sum that needs no more digits than its
\* operand is exact.  All offsets are counted in units of the finest of the
\* three grids, from the integer below n / d in those units.
FloatDrift(base, n, d, recency) ==
    IF Abs(n) % OddPart(d) = 0 \/ n > 20 * d THEN 0
    ELSE LET e1 == Exponent(Abs(n), d)
             e2 == Exponent(Abs(base * d + n), d)
             e3 == Exponent(Abs((base + recency) * d + n), d)
             emin == Min2(e1, Min2(e2, e3))
             h1 == e1 - emin
             h2 == e2 - emin
             h3 == e3 - emin
             w == Pow2(Max2(h1, Max2(h2, h3)) + 1)
             x == Expand((Abs(n) \div d) % w, Abs(n) % d, d, w, 52 - emin)
             low == IF n > 0 THEN x[1] ELSE w - 1 - x[1]
             above == IF n > 0 THEN 2 * x[2] > d ELSE 2 * x[2] < d
             o1 == RoundReal(low, above, h1)
             o2 == IF h2 <= h1 THEN o1 ELSE o1 + RoundGrid(low + o1, h2)
             o3 == IF h3 <= Max2(h1, h2) THEN o2 ELSE o2 + RoundGrid(low + o2, h3)
             exact == RoundReal(low, above, h3)
         IN  (o3 - exact) \div Pow2(h3)

\* the divisor of the engagement boost, 0 when the boost is the int 0
EngagementDivisor(item) ==
    IF Get(item, "source_type", "") = "youtube" THEN 10000
    ELSE IF Get(item, "source_type", "") = "reddit" THEN 100
    ELSE 0

\* total_score = base_score + engagement_boost + recency_boost
calculate_score(item, content_type) ==
    IF TimestampAware(item) THEN TypeError
    ELSE << BaseScore(content_type) + EngagementBoost(item) + RecencyBoost(item),
            IF EngagementDivisor(item) = 0 THEN 0
            ELSE FloatDrift(BaseScore(content_type) \div ScoreScale,
                            Get(item, "score", 0), EngagementDivisor(item),
                            RecencyBoost(item) \div ScoreScale) >>

\* list.sort(key=rank_score, reverse=True): descending and stable, so x goes
\* after every element whose score is not lower
RECURSIVE InsertByScore(_, _)
InsertByScore(sorted, x) ==
    IF sorted = <<>> THEN <<x>>
    ELSE IF ~ScoreBelow(Head(sorted).rank_score, x.rank_score)
    THEN <<Head(sorted)>> \o InsertByScore(Tail(sorted), x)
    ELSE <<x>> \o sorted

RECURSIVE SortByScore(_)
SortByScore(xs) ==
    IF xs = <<>> THEN <<>>
    ELSE InsertByScore(SortByScore(SubSeq(xs, 1, Len(xs) - 1)), xs[Len(xs)])

\* the loop body of rank_content: the item with its two new fields.  Both
\* values are computed before either is stored, so when calculate_score
\* raises, the item gets no new field
RankItem(item, official_sources) ==
    IF TimestampAware(item) THEN TypeError
    ELSE LET content_type == determine_content_type(item, official_sources)
         IN  [id |-> item.id, title |-> item.title, url |-> item.url,
              source_type |-> item.source_type, score |-> item.score,
              timestamp |-> item.timestamp, source |-> item.source,
              description |-> item.description, absent |-> item.absent,
              content_type |-> content_type,
              rank_score |-> calculate_score(item, content_type)]

\* A variant of rank_content with one defect: the sort is left out
rank_content_unsorted(xs, official_sources) ==
    IF \E i \in 1..Len(xs) : TimestampAware(xs[i]) THEN TypeError
    ELSE [i \in 1..Len(xs) |-> RankItem(xs[i], official_sources)]

\* the loop over the items, then the sort; an exception of calculate_score
\* leaves the call
rank_content(xs, official_sources) ==
    IF \E i \in 1..Len(xs) : TimestampAware(xs[i]) THEN TypeError
    ELSE SortByScore([i \in 1..Len(xs) |-> RankItem(xs[i], official_sources)])

-----------------------------------------------------------------------------
(* processors/content_ranker.py: select_top_items                          *)

SourceOrder == <<"news", "reddit", "youtube">>

\* item.get("url", id(item)): the URL whenever the key is present (the empty
\* string included), the object's identity only when the key is absent
ItemId(item) ==
    IF "url" \in item.absent THEN <<"id", item.id>> ELSE <<"url", item.url>>

\* seq[:n], also for negative n
SliceTo(seq, n) ==
    IF n >= 0 THEN SubSeq(seq, 1, Min2(n, Len(seq)))
    ELSE SubSeq(seq, 1, Max2(0, Len(seq) + n))

\* by_source[kind]: the ranked items of that source kind, in ranked order
RECURSIVE OfKind(_, _)
OfKind(xs, kind) ==
    IF xs = <<>> THEN <<>>
    ELSE IF Get(Head(xs), "source_type", "") = kind
    THEN <<Head(xs)>> \o OfKind(Tail(xs), kind)
    ELSE OfKind(Tail(xs), kind)

GroupBySource(ranked) ==
    [kind \in {"reddit", "youtube", "news"} |-> OfKind(ranked, kind)]

\* target_distribution: the midpoint of each configured range
TargetDistribution(table) ==
    [kind \in DOMAIN table |-> (table[kind][1] + table[kind][2]) \div 2]

\* target_distribution.get(source_type, 0)
TargetOf(targets, kind) == IF kind \in DOMAIN targets THEN targets[kind] ELSE 0

\* A variant of the slice with one defect: one item short of the target
BucketSliceShort(targets, groups, kind, remaining) ==
    SliceTo(groups[kind],
            Max2(0, Min2(Min2(TargetOf(targets, kind), remaining),
                         Len(groups[kind])) - 1))

\* available[:actual_target]
BucketSlice(targets, groups, kind, remaining) ==
    SliceTo(groups[kind],
            Min2(Min2(TargetOf(targets, kind), remaining), Len(groups[kind])))

\* A variant of the pick with one defect: the slot is not taken
PickItemKeepsSlot(st, item) ==
    IF ItemId(item) \in st.ids THEN st
    ELSE [selected  |-> Append(st.selected, item),
          ids       |-> st.ids \cup {ItemId(item)},
          remaining |-> st.remaining]

\* `if item_id not in selected_ids:` append, add the id, take a slot
PickItem(st, item) ==
    IF ItemId(item) \in st.ids THEN st
    ELSE [selected  |-> Append(st.selected, item),
          ids       |-> st.ids \cup {ItemId(item)},
          remaining |-> st.remaining - 1]

SelectStart(k) == [selected |-> <<>>, ids |-> {}, remaining |-> k]

\* the first pass over one source kind
RECURSIVE PickSlice(_, _, _)
PickSlice(st, xs, i) ==
    IF i > Len(xs) THEN st ELSE PickSlice(PickItem(st, xs[i]), xs, i + 1)

RECURSIVE QuotaPass(_, _, _, _)
QuotaPass(st, targets, groups, k) ==
    IF k > Len(SourceOrder) THEN st
    ELSE QuotaPass(PickSlice(st, BucketSlice(targets, groups, SourceOrder[k],
                                             st.remaining), 1),
                   targets, groups, k + 1)

\* the second pass: stops right after the pick that takes the last slot
RECURSIVE FillFrom(_, _, _)
FillFrom(st, xs, i) ==
    IF i > Len(xs) THEN st
    ELSE LET nxt == PickItem(st, xs[i])
         IN  IF nxt # st /\ nxt.remaining <= 0 THEN nxt
             ELSE FillFrom(nxt, xs, i + 1)

FillPass(st, ranked) == IF st.remaining > 0 THEN FillFrom(st, ranked, 1) ELSE st

\* A variant of the last step with one defect: the final sort is left out
FinishSelectionUnsorted(sel, k) == SliceTo(sel, k)

\* selected.sort(...); selected = selected[:count]
FinishSelection(sel, k) == SliceTo(SortByScore(sel), k)

\* select_top_items from `if not ranked_items` on
SelectRanked(ranked, k, table) ==
    IF ranked = <<>> THEN <<>>
    ELSE FinishSelection(
             FillPass(QuotaPass(SelectStart(k), TargetDistribution(table),
                                GroupBySource(ranked), 1),
                      ranked).selected,
             k)

\* select_top_items(items, official_sources, count), the whole call
select_top_items(xs, official_sources, k, table) ==
    IF \E i \in 1..Len(xs) : TimestampAware(xs[i]) THEN TypeError
    ELSE SelectRanked(rank_content(xs, official_sources), k, table)

-----------------------------------------------------------------------------
(* The state of a function that is not running                             *)

DedupIdle ==
    /\ items = <<>> /\ idx = 0 /\ unique_items = <<>>
    /\ seen_urls = {} /\ seen_titles = <<>> /\ dpc = "idle"

SelIdle ==
    /\ pool = <<>> /\ count = 0 /\ dist = <<>> /\ ranked_items = <<>>
    /\ by_source = <<>> /\ target_distribution = <<>> /\ src_i = 0
    /\ slice = <<>> /\ pos = 0 /\ selected = <<>> /\ selected_ids = {}
    /\ remaining_slots = 0 /\ spc = "idle"

ScoreIdle ==
    /\ sc_item = <<>> /\ sc_official = {} /\ sc_type = "" /\ sc_score = <<0, 0>>
    /\ scpc = "idle"

PipeIdle ==
    /\ all_content = <<>> /\ failed_sources = {} /\ unique_content = <<>>
    /\ top_items = <<>> /\ p_ranked = <<>> /\ rank_writes = <<>> /\ pdist = <<>> /\ ppc = "idle"

SendIdle ==
    /\ digest_keys = <<>> /\ malformed = {}
    /\ section_order = <<>> /\ sec_i = 0 /\ attempt = 0
    /\ header_sent = FALSE /\ attempts = <<>> /\ outcome = <<>>
    /\ send_result = "none" /\ wpc = "idle"

FmtIdle ==
    /\ game_name = "" /\ fmt_items = <<>> /\ is_trending = FALSE
    /\ message = "" /\ fmt_idx = 0 /\ fpc = "idle"

-----------------------------------------------------------------------------
(* ContentRanker.select_top_items, one loop iteration per step             *)

\* GAMES["arcraiders"]["official_sources"]
OfficialSources == {"Embark Studios", "Arc Raiders"}

\* The pools of the selector's runs.  An item is of one of four source
\* kinds (the three known ones and "blog"); it is fresh (scored now) or old
\* (100 hours); its url key holds a URL of its own (pools are deduplicated:
\* no two items share a non-empty URL), holds the empty string, or is absent.
\* The mode "low" is a URL of its own and a low engagement: the fresh forum
\* post (25 + 2 / 100 + 25) and the old video (50 + 200 / 10000 + 0) have
\* sums that differ only by the rounding of the additions.
PoolTemplates ==
    ({"news", "reddit"} \X {"own"} \X {0, 100})
    \cup {<<"reddit", "low", 0>>, <<"youtube", "low", 100>>}
    \cup ({"youtube", "blog"} \X {"own"} \X {0})
    \cup ({"news", "reddit"} \X {"empty"} \X {0})
    \cup ({"youtube"} \X {"absent"} \X {0})

OwnUrl(i) == CASE i = 1 -> "u1" [] i = 2 -> "u2" [] i = 3 -> "u3"
               [] i = 4 -> "u4" [] i = 5 -> "u5" [] OTHER -> "u6"

PoolItem(i, kind, mode, age) ==
    LET item ==
            MkItem(i, "clip",
                   IF mode \in {"own", "low"} THEN OwnUrl(i) ELSE "",
                   kind,
                   CASE kind = "reddit" -> IF mode = "low" THEN 2 ELSE 600
                     [] kind = "youtube" -> IF mode = "low" THEN 200 ELSE 50000
                     [] OTHER -> 0,
                   <<NowHour - age>>,
                   CASE kind = "news" -> "IGN" [] kind = "reddit" -> "r/arcraiders"
                     [] kind = "youtube" -> "SomeTuber" [] OTHER -> "blog",
                   IF kind = "reddit" THEN "clip" ELSE "")
    IN  IF mode = "absent" THEN DropKey(item, "url") ELSE item

Pools(n) ==
    {[i \in 1..n |-> PoolItem(i, f[i][1], f[i][2], f[i][3])] :
        f \in [1..n -> PoolTemplates]}

\* SOURCE_DISTRIBUTION: content_ranker.py imports the name from config, and
\* config.py does not define it, so the table is not in the source.  The
\* selector reads it as a range (min, max) per source kind; the tables
\* here are the two documented policies, equal shares and explicit ranges,
\* the latter also with a midpoint that is rounded down
QuotaTables ==
    { [news |-> <<1, 1>>, reddit |-> <<1, 1>>, youtube |-> <<1, 1>>],
      [news |-> <<1, 3>>, reddit |-> <<0, 1>>, youtube |-> <<0, 0>>],
      [news |-> <<1, 2>>, reddit |-> <<1, 1>>, youtube |-> <<0, 1>>] }

InitSelect ==
    /\ pool \in UNION {Pools(n) : n \in 0..MaxPool}
    /\ count \in 0..MaxCount
    /\ dist \in QuotaTables
    /\ ranked_items = <<>> /\ by_source = <<>> /\ target_distribution = <<>>
    /\ src_i = 0 /\ slice = <<>> /\ pos = 0
    /\ selected = <<>> /\ selected_ids = {} /\ remaining_slots = 0
    /\ spc = "start"
    /\ DedupIdle /\ ScoreIdle /\ PipeIdle /\ SendIdle /\ FmtIdle

\* the local state of the two passes as one record
SelState == [selected |-> selected, ids |-> selected_ids, remaining |-> remaining_slots]

SetSelState(st) ==
    /\ selected' = st.selected
    /\ selected_ids' = st.ids
    /\ remaining_slots' = st.remaining

\* ranked_items = self.rank_content(items, official_sources)
SelRank ==
    /\ spc = "start"
    /\ ranked_items' = rank_content(pool, OfficialSources)
    /\ spc' = "ranked"
    /\ UNCHANGED <<pool, count, dist, by_source, target_distribution, src_i,
                   slice, pos, selected, selected_ids, remaining_slots>>
    /\ UNCHANGED notSel

\* `if not ranked_items: return []`
SelEmpty ==
    /\ spc = "ranked" /\ ranked_items = <<>>
    /\ selected' = <<>>
    /\ spc' = "done"
    /\ UNCHANGED <<pool, count, dist, ranked_items, by_source,
                   target_distribution, src_i, slice, pos, selected_ids,
                   remaining_slots>>
    /\ UNCHANGED notSel

\* group by source kind, compute the targets, and enter the first pass at
\* its first source kind
SelGroup ==
    /\ spc = "ranked" /\ ranked_items # <<>>
    /\ by_source' = GroupBySource(ranked_items)
    /\ target_distribution' = TargetDistribution(dist)
    /\ SetSelState(SelectStart(count))
    /\ src_i' = 1
    /\ slice' = BucketSlice(TargetDistribution(dist), GroupBySource(ranked_items),
                            SourceOrder[1], count)
    /\ pos' = 1
    /\ spc' = "quota"
    /\ UNCHANGED <<pool, count, dist, ranked_items>>
    /\ UNCHANGED notSel

\* first pass, one item of available[:actual_target]
SelQuotaItem ==
    /\ spc = "quota" /\ pos <= Len(slice)
    /\ SetSelState(PickItem(SelState, slice[pos]))
    /\ pos' = pos + 1
    /\ UNCHANGED <<pool, count, dist, ranked_items, by_source,
                   target_distribution, src_i, slice, spc>>
    /\ UNCHANGED notSel

\* first pass, on to the next source kind
SelQuotaNext ==
    /\ spc = "quota" /\ pos > Len(slice) /\ src_i < Len(SourceOrder)
    /\ src_i' = src_i + 1
    /\ slice' = BucketSlice(target_distribution, by_source,
                            SourceOrder[src_i + 1], remaining_slots)
    /\ pos' = 1
    /\ UNCHANGED <<pool, count, dist, ranked_items, by_source,
                   target_distribution, selected, selected_ids,
                   remaining_slots, spc>>
    /\ UNCHANGED notSel

\* the first pass is over: `if remaining_slots > 0` enters the second pass
SelQuotaEnd ==
    /\ spc = "quota" /\ pos > Len(slice) /\ src_i = Len(SourceOrder)
    /\ spc' = IF remaining_slots > 0 THEN "fill" ELSE "sort"
    /\ pos' = 1
    /\ slice' = <<>>
    /\ UNCHANGED <<pool, count, dist, ranked_items, by_source,
                   target_distribution, src_i, selected, selected_ids,
                   remaining_slots>>
    /\ UNCHANGED notSel

\* second pass, one item of ranked_items
SelFillItem ==
    /\ spc = "fill" /\ pos <= Len(ranked_items)
    /\ LET nxt == PickItem(SelState, ranked_items[pos])
       IN  /\ SetSelState(nxt)
           /\ spc' = IF nxt # SelState /\ nxt.remaining <= 0 THEN "sort" ELSE "fill"
    /\ pos' = pos + 1
    /\ UNCHANGED <<pool, count, dist, ranked_items, by_source,
                   target_distribution, src_i, slice>>
    /\ UNCHANGED notSel

\* second pass, the pool is exhausted
SelFillEnd ==
    /\ spc = "fill" /\ pos > Len(ranked_items)
    /\ spc' = "sort"
    /\ UNCHANGED <<pool, count, dist, ranked_items, by_source,
                   target_distribution, src_i, slice, pos, selected,
                   selected_ids, remaining_slots>>
    /\ UNCHANGED notSel

\* sort, trim to count, return
SelFinish ==
    /\ spc = "sort"
    /\ selected' = FinishSelection(selected, count)
    /\ spc' = "done"
    /\ UNCHANGED <<pool, count, dist, ranked_items, by_source,
                   target_distribution, src_i, slice, pos, selected_ids,
                   remaining_slots>>
    /\ UNCHANGED notSel

NextSelect ==
    \/ SelRank \/ SelEmpty \/ SelGroup \/ SelQuotaItem \/ SelQuotaNext \/ SelQuotaEnd
    \/ SelFillItem \/ SelFillEnd \/ SelFinish

SpecSelect == InitSelect /\ [][NextSelect]_vars

-----------------------------------------------------------------------------
(* Deduplicator.deduplicate, one loop iteration per step                   *)

InitDedup ==
    /\ items \in UNION {DedupInputs(n) : n \in 0..MaxItems}
    /\ idx = 0
    /\ unique_items = <<>>
    /\ seen_urls = {}
    /\ seen_titles = <<>>
    /\ dpc = "start"
    /\ SelIdle /\ ScoreIdle /\ PipeIdle /\ SendIdle /\ FmtIdle

\* `if not items: return []`
DedupEmpty ==
    /\ dpc = "start" /\ items = <<>>
    /\ dpc' = "done"
    /\ unique_items' = <<>>
    /\ UNCHANGED <<items, idx, seen_urls, seen_titles>>
    /\ UNCHANGED notDedup

\* unique_items = []; seen_urls = set(); seen_titles = []
DedupEnter ==
    /\ dpc = "start" /\ items # <<>>
    /\ dpc' = "loop"
    /\ idx' = 1
    /\ unique_items' = DedupStart.unique
    /\ seen_urls' = DedupStart.urls
    /\ seen_titles' = DedupStart.titles
    /\ UNCHANGED items
    /\ UNCHANGED notDedup

\* the body of `for item in items`
DedupIterate ==
    /\ dpc = "loop" /\ idx <= Len(items)
    /\ LET st == DedupStep([unique |-> unique_items, urls |-> seen_urls,
                            titles |-> seen_titles], items[idx])
       IN  /\ unique_items' = st.unique
           /\ seen_urls' = st.urls
           /\ seen_titles' = st.titles
    /\ idx' = idx + 1
    /\ UNCHANGED <<items, dpc>>
    /\ UNCHANGED notDedup

\* `return unique_items`
DedupReturn ==
    /\ dpc = "loop" /\ idx > Len(items)
    /\ dpc' = "done"
    /\ UNCHANGED <<items, idx, unique_items, seen_urls, seen_titles>>
    /\ UNCHANGED notDedup

NextDedup == DedupEmpty \/ DedupEnter \/ DedupIterate \/ DedupReturn

SpecDedup == InitDedup /\ [][NextDedup]_vars

-----------------------------------------------------------------------------
(* ContentRanker.rank_content: the loop body on one item (classify, score) *)

\* the items of the scorer's runs: every source kind, engagement below, at
\* and above the caps, no timestamp or an age at either side of both
\* thresholds (and one in the future), a negative engagement (the scraper
\* takes any integer text), engagement at and next to the forum threshold,
\* a title with and without an official keyword, a news outlet, a video
\* channel, an official source and none of them as the source label (or
\* the label of a configured feed), a description that is empty or names
\* an official source; with the official-source lists of the two games and
\* an empty one

\* the names of the configured news feeds (the keys of NEWS_RSS_FEEDS)
NEWS_RSS_FEEDS == {"ign", "kotaku", "pcgamer", "polygon", "vg247", "eurogamer"}

\* the source label the news fetcher gives an article of a feed
FeedSource(feed_name) == Upper(feed_name)

FeedSources == {FeedSource(feed_name) : feed_name \in NEWS_RSS_FEEDS}

ScoreInputs ==
    {MkItem(1, t, "u1", k, e, ts, src, d) :
        t \in {"clip", "Patch notes"},
        k \in {"news", "reddit", "youtube", "blog"},
        e \in {-500, 0, 2, 3, 50, 500, 501, 600, 2500, 50000, 300000},
        ts \in {<<>>, <<NowHour - 5, "aware">>}
                \cup {<<NowHour - a>> : a \in {-5, 0, 24, 25, 72, 73}},
        src \in {"IGN", "someone", "Kotaku", "GameSpot", "Embark Studios"}
                 \cup FeedSources,
        d \in {"", "by Embark Studios"}}

InitScore ==
    /\ sc_item \in ScoreInputs
    /\ sc_official \in {OfficialSources, {"EA", "DICE", "Battlefield"}, {}}
    /\ sc_type = "" /\ sc_score = <<0, 0>> /\ scpc = "start"
    /\ DedupIdle /\ SelIdle /\ PipeIdle /\ SendIdle /\ FmtIdle

\* content_type = self.determine_content_type(item, official_sources)
ScClassify ==
    /\ scpc = "start"
    /\ sc_type' = determine_content_type(sc_item, sc_official)
    /\ scpc' = "typed"
    /\ UNCHANGED <<sc_item, sc_official, sc_score>>
    /\ UNCHANGED notScore

\* score = self.calculate_score(item, content_type)
ScScore ==
    /\ scpc = "typed"
    /\ calculate_score(sc_item, sc_type) # TypeError
    /\ sc_score' = calculate_score(sc_item, sc_type)
    /\ scpc' = "done"
    /\ UNCHANGED <<sc_item, sc_official, sc_type>>
    /\ UNCHANGED notScore

\* calculate_score raised: no score is assigned
ScRaise ==
    /\ scpc = "typed"
    /\ calculate_score(sc_item, sc_type) = TypeError
    /\ scpc' = "raised"
    /\ UNCHANGED <<sc_item, sc_official, sc_type, sc_score>>
    /\ UNCHANGED notScore

NextScore == ScClassify \/ ScScore \/ ScRaise

SpecScore == InitScore /\ [][NextScore]_vars

-----------------------------------------------------------------------------
(* Properties of calculate_score (checked under SpecScore)                 *)

ScoreDone == scpc = "done"

\* the same record with the timestamp t
WithTimestamp(item, t) ==
    [item EXCEPT !.timestamp = <<t>>]

\* C9: a record without a timestamp is scored as the otherwise identical
\* record whose timestamp is the scoring time (recency boost 25).
C9_NoTimestampScoresAsNow ==
    (ScoreDone /\ sc_item.timestamp = <<>>) =>
        sc_score = calculate_score(WithTimestamp(sc_item, NowHour), sc_type)

Typed == scpc \in {"typed", "done"}

Tiers == {"official", "major_news", "community", "discussion"}

\* the classifier's rules as the ordered list of <<condition, tier>>
ClassifierRules(item, officials) ==
    LET title == Lower(item.title)
        label == Lower(item.source)
        text  == title \o " " \o label \o " " \o Lower(item.description)
    IN  << << \E name \in officials : Contains(text, Lower(name)), "official" >>,
           << \E word \in {"patch", "update", "announcement", "release",
                           "launch", "developer", "official", "confirmed"} :
                  Contains(title, word), "official" >>,
           << item.source_type = "news"
                  /\ \E outlet \in major_outlets : Contains(label, outlet),
              "major_news" >>,
           << item.source_type = "youtube"
                  /\ \E channel \in trusted_channels : Contains(label, channel),
              "major_news" >>,
           << item.source_type = "youtube", "community" >>,
           << item.source_type = "reddit" /\ item.score > 500, "community" >>,
           << item.source_type = "reddit", "discussion" >>,
           << TRUE, "discussion" >> >>

FirstMatch(rules) ==
    rules[CHOOSE k \in 1..Len(rules) :
              rules[k][1] /\ \A j \in 1..(k - 1) : ~rules[j][1]][2]

\* C12: determine_content_type returns the tier of the first rule that
\* matches, in the order official source, announcement keyword, major news
\* outlet, video (trusted channel or not), forum (engagement above 500 or
\* not), anything else; the result is one of the four tiers.
C12_FirstMatchingRule ==
    Typed => /\ sc_type = FirstMatch(ClassifierRules(sc_item, sc_official))
             /\ sc_type \in Tiers

\* a forum post with engagement exactly 500 was classified discussion
C12_Witness ==
    /\ Typed
    /\ sc_item.source_type = "reddit" /\ sc_item.score = 500
    /\ sc_type = "discussion"

\* the age of a record that has a timestamp, in hours
AgeOf(item) == NowHour - item.timestamp[1]

\* C13: for a record with a timestamp, the score is the tier weight
\* (official 100, major_news 75, community 50, discussion 25) plus the
\* engagement boost (min(engagement/10000, 20) for video,
\* min(engagement/100, 20) for forum, 0 otherwise) plus the recency boost
\* (25 up to 24 hours, 10 up to 72 hours, 0 beyond), in units of
\* 1/ScoreScale; for an engagement that is not negative the float returned
\* is within one unit in the last place of the double nearest to that sum.
C13_ScoreFormula ==
    (ScoreDone /\ sc_item.timestamp # <<>>) =>
        LET weight == CASE sc_type = "official" -> 100
                        [] sc_type = "major_news" -> 75
                        [] sc_type = "community" -> 50
                        [] sc_type = "discussion" -> 25
            engagement ==
                CASE sc_item.source_type = "youtube" ->
                        IF sc_item.score <= 20 * 10000
                        THEN (sc_item.score * ScoreScale) \div 10000
                        ELSE 20 * ScoreScale
                  [] sc_item.source_type = "reddit" ->
                        IF sc_item.score <= 20 * 100
                        THEN (sc_item.score * ScoreScale) \div 100
                        ELSE 20 * ScoreScale
                  [] OTHER -> 0
            recency == IF AgeOf(sc_item) <= 24 THEN 25
                       ELSE IF AgeOf(sc_item) <= 72 THEN 10
                       ELSE 0
        IN  /\ sc_score[1] = weight * ScoreScale + engagement + recency * ScoreScale
            /\ sc_item.score >= 0 => sc_score[2] \in -1..1

\* a video exactly 24 hours old, with views below the cap, was scored
C13_Witness ==
    /\ ScoreDone
    /\ sc_item.timestamp = <<NowHour - 24>>
    /\ sc_item.source_type = "youtube" /\ sc_item.score = 50000
    /\ sc_type = "community"
    /\ sc_score = <<(50 + 5 + 25) * ScoreScale, 0>>

\* C14: the engagement boost of a forum or video item lies in [0, 20], for
\* any engagement value a fetcher can produce, and the recency boost is one
\* of 0, 10, 25, for any timestamp.
C14_BoostBounds ==
    ScoreDone =>
        /\ sc_item.source_type \in {"reddit", "youtube"} =>
              /\ EngagementBoost(sc_item) >= 0
              /\ EngagementBoost(sc_item) <= 20 * ScoreScale
        /\ RecencyBoost(sc_item) \in {0, 10 * ScoreScale, 25 * ScoreScale}

-----------------------------------------------------------------------------
(* main.py: aggregate_content_for_game, then process_and_rank_content      *)

\* What a fetcher returns: up to MaxFetch items of its source kind, fresh,
\* each with a URL of its own; the titles are equal, similar or dissimilar.
\* The description is the text of the entry's summary (of the video's
\* description), which is empty or not and can name an official source.
PipeTitles == {"abc", "abcd", "xy"}
PipeDescriptions == {"", "by Embark Studios"}

FetchedItem(i, kind, title, score, description) ==
    MkItem(i, title, OwnUrl(i), kind, score, <<NowHour>>,
           CASE kind = "news" -> "IGN" [] kind = "reddit" -> "r/arcraiders"
             [] OTHER -> "SomeTuber",
           description)

\* the lists a fetcher can return when all_content holds `base` items
Fetched(kind, scores, base) ==
    UNION {{[i \in 1..n |->
                FetchedItem(base + i, kind, f[i][1], f[i][2], f[i][3])] :
                f \in [1..n -> PipeTitles \X scores \X PipeDescriptions]} :
           n \in 0..MaxFetch}

\* _fetch_via_scraping, used when the RSS feed gave no post: the score is
\* the number on the page (0 when it is not a number) and the description
\* is the title, whatever the score
ScrapedPost(i, title, score) == FetchedItem(i, "reddit", title, score, title)

Scraped(scores, base) ==
    UNION {{[i \in 1..n |-> ScrapedPost(base + i, f[i][1], f[i][2])] :
                f \in [1..n -> PipeTitles \X scores]} : n \in 0..MaxFetch}

InitPipe ==
    /\ all_content = <<>> /\ failed_sources = {} /\ unique_content = <<>>
    /\ top_items = <<>> /\ p_ranked = <<>> /\ rank_writes = <<>>
    /\ pdist \in QuotaTables
    /\ ppc = "reddit"
    /\ DedupIdle /\ SelIdle /\ ScoreIdle /\ SendIdle /\ FmtIdle

\* reddit_agg.aggregate_for_game(...) returned (the posts of the RSS feed,
\* whose score is 0, or the scraped ones); all_content.extend
FetchReddit ==
    /\ ppc = "reddit"
    /\ \E posts \in Fetched("reddit", {0}, Len(all_content))
                    \cup Scraped({0, 600}, Len(all_content)) :
          /\ all_content' = all_content \o posts
          /\ rank_writes' = rank_writes \o [i \in 1..Len(posts) |-> 0]
    /\ ppc' = "youtube"
    /\ UNCHANGED <<failed_sources, unique_content, top_items, p_ranked, pdist>>
    /\ UNCHANGED notPipe

\* it raised: the except clause logs the error
FetchRedditFails ==
    /\ ppc = "reddit"
    /\ failed_sources' = failed_sources \cup {"reddit"}
    /\ ppc' = "youtube"
    /\ UNCHANGED <<all_content, unique_content, top_items, p_ranked, rank_writes,
                   pdist>>
    /\ UNCHANGED notPipe

FetchYoutube ==
    /\ ppc = "youtube"
    /\ \E videos \in Fetched("youtube", {50000}, Len(all_content)) :
          /\ all_content' = all_content \o videos
          /\ rank_writes' = rank_writes \o [i \in 1..Len(videos) |-> 0]
    /\ ppc' = "news"
    /\ UNCHANGED <<failed_sources, unique_content, top_items, p_ranked, pdist>>
    /\ UNCHANGED notPipe

\* A variant with one defect: the except clause empties all_content
FetchYoutubeFailsAndClears ==
    /\ ppc = "youtube"
    /\ failed_sources' = failed_sources \cup {"youtube"}
    /\ all_content' = <<>>
    /\ ppc' = "news"
    /\ UNCHANGED <<unique_content, top_items, p_ranked, rank_writes,
                   pdist>>
    /\ UNCHANGED notPipe

FetchYoutubeFails ==
    /\ ppc = "youtube"
    /\ failed_sources' = failed_sources \cup {"youtube"}
    /\ ppc' = "news"
    /\ UNCHANGED <<all_content, unique_content, top_items, p_ranked, rank_writes,
                   pdist>>
    /\ UNCHANGED notPipe

FetchNews ==
    /\ ppc = "news"
    /\ \E articles \in Fetched("news", {0}, Len(all_content)) :
          /\ all_content' = all_content \o articles
          /\ rank_writes' = rank_writes \o [i \in 1..Len(articles) |-> 0]
    /\ ppc' = "process"
    /\ UNCHANGED <<failed_sources, unique_content, top_items, p_ranked, pdist>>
    /\ UNCHANGED notPipe

FetchNewsFails ==
    /\ ppc = "news"
    /\ failed_sources' = failed_sources \cup {"news"}
    /\ ppc' = "process"
    /\ UNCHANGED <<all_content, unique_content, top_items, p_ranked, rank_writes,
                   pdist>>
    /\ UNCHANGED notPipe

\* process_and_rank_content: `if not content: return []`
ProcessEmpty ==
    /\ ppc = "process" /\ all_content = <<>>
    /\ top_items' = <<>>
    /\ ppc' = "done"
    /\ UNCHANGED <<all_content, failed_sources, unique_content, p_ranked,
                   rank_writes, pdist>>
    /\ UNCHANGED notPipe

\* unique_content = deduplicator.deduplicate(content)
ProcessDedup ==
    /\ ppc = "process" /\ all_content # <<>>
    /\ unique_content' = Deduplicate(all_content)
    /\ ppc' = "select"
    /\ UNCHANGED <<all_content, failed_sources, top_items, p_ranked, rank_writes,
                   pdist>>
    /\ UNCHANGED notPipe

\* select_top_items -> rank_content: the body of `for item in items`, which
\* sets the item's content_type and rank_score.  The fetchers deliver
\* timestamps without a timezone only, so calculate_score does not raise here
ProcessRankItem ==
    /\ ppc = "select" /\ Len(p_ranked) < Len(unique_content)
    /\ ~TimestampAware(unique_content[Len(p_ranked) + 1])
    /\ LET item == unique_content[Len(p_ranked) + 1]
       IN  /\ p_ranked' = Append(p_ranked, RankItem(item, OfficialSources))
           /\ rank_writes' = [rank_writes EXCEPT ![item.id] = @ + 1]
    /\ UNCHANGED <<all_content, failed_sources, unique_content, top_items, pdist,
                   ppc>>
    /\ UNCHANGED notPipe

\* A variant of the last step with one defect: the ranked list is ranked a
\* second time before the selection
ProcessSelectReranks ==
    /\ ppc = "select" /\ Len(p_ranked) = Len(unique_content)
    /\ top_items' = select_top_items(p_ranked, OfficialSources, ITEMS_PER_GAME, pdist)
    /\ rank_writes' = [i \in 1..Len(rank_writes) |->
                          IF \E k \in 1..Len(p_ranked) : p_ranked[k].id = i
                          THEN rank_writes[i] + 1 ELSE rank_writes[i]]
    /\ ppc' = "done"
    /\ UNCHANGED <<all_content, failed_sources, unique_content, p_ranked, pdist>>
    /\ UNCHANGED notPipe

\* the loop of rank_content is over: the sort, the rest of select_top_items
\* (count=ITEMS_PER_GAME) and the return of top_items
ProcessSelect ==
    /\ ppc = "select" /\ Len(p_ranked) = Len(unique_content)
    /\ top_items' = SelectRanked(SortByScore(p_ranked), ITEMS_PER_GAME, pdist)
    /\ ppc' = "done"
    /\ UNCHANGED <<all_content, failed_sources, unique_content, p_ranked,
                   rank_writes, pdist>>
    /\ UNCHANGED notPipe

NextPipe ==
    \/ FetchReddit \/ FetchRedditFails \/ FetchYoutube \/ FetchYoutubeFails
    \/ FetchNews \/ FetchNewsFails
    \/ ProcessEmpty \/ ProcessDedup \/ ProcessRankItem \/ ProcessSelect

SpecPipe == InitPipe /\ [][NextPipe]_vars

-----------------------------------------------------------------------------
(* Properties of the pipeline (checked under SpecPipe)                     *)

Deduplicated == ppc \in {"select", "done"} /\ all_content # <<>>

UniqueIds == {unique_content[k].id : k \in 1..Len(unique_content)}

\* the rank_score the ranker gives an item
RankScoreOf(item) == RankItem(item, OfficialSources).rank_score

\* C8: of fetched items with near-duplicate titles the one that survives
\* deduplication is the highest-ranked: no dropped item has a higher
\* rank_score than the kept item its title is similar to.
C8_SurvivorIsHighestRanked ==
    Deduplicated =>
        \A j \in 1..Len(all_content) :
            j \notin UniqueIds =>
                \A i \in UniqueIds :
                    are_titles_similar(all_content[j].title, all_content[i].title)
                        => ~ScoreBelow(RankScoreOf(all_content[i]),
                                       RankScoreOf(all_content[j]))

Aggregated == ppc \in {"process", "select", "done"}

\* the sources in fetch order, and the position a fetch leaves for
FetchOrder == <<"reddit", "youtube", "news", "process">>
AfterFetch(at) == FetchOrder[(CHOOSE k \in 1..3 : FetchOrder[k] = at) + 1]

IsPrefix(xs, ys) ==
    Len(xs) <= Len(ys) /\ \A i \in 1..Len(xs) : ys[i] = xs[i]

\* C18: when the fetch of a source fails, the run goes on with the next
\* source and the list is left as it was; what was fetched stays in the
\* list while the other sources are fetched; so the returned list holds no
\* item of a failed source and the items of the other sources.
C18_FetchFailureContained ==
    /\ [][failed_sources' # failed_sources =>
              /\ all_content' = all_content
              /\ ppc' = AfterFetch(ppc)]_vars
    /\ [][IsPrefix(all_content, all_content')]_vars
    /\ [](Aggregated =>
              \A kind \in failed_sources :
                  \A i \in 1..Len(all_content) : all_content[i].source_type # kind)

\* the video fetch failed between two fetches that returned items, and both
\* items are in the list
C18_Witness ==
    /\ Aggregated
    /\ failed_sources = {"youtube"}
    /\ Len(all_content) = 2
    /\ all_content[1].source_type = "reddit"
    /\ all_content[2].source_type = "news"

\* C19: within one run of the pipeline the content_type and rank_score of
\* a record are assigned at most once.
C19_WriteOnce ==
    \A i \in 1..Len(rank_writes) : rank_writes[i] <= 1

\* a run ended in which two records or more were classified and scored
C19_Witness ==
    /\ ppc = "done"
    /\ Len(unique_content) >= 2
    /\ \A k \in 1..Len(unique_content) : rank_writes[unique_content[k].id] = 1

-----------------------------------------------------------------------------
(* The pipeline on a mixed batch: two forum posts, two videos, one article *)

\* pairwise dissimilar titles without an official keyword
BatchTitles == <<"raid", "loot", "maps", "guns", "boss">>

\* the five records in fetch order (reddit, youtube, news); `swap` puts the
\* post with the lower engagement first; a post with a score has its title
\* as its description
Batch(ts, swap, outlet) ==
    << MkItem(1, BatchTitles[1], OwnUrl(1), "reddit", IF swap THEN 50 ELSE 600,
              ts[1], "r/arcraiders", BatchTitles[1]),
       MkItem(2, BatchTitles[2], OwnUrl(2), "reddit", IF swap THEN 600 ELSE 50,
              ts[2], "r/arcraiders", BatchTitles[2]),
       MkItem(3, BatchTitles[3], OwnUrl(3), "youtube", 50000, ts[3], "SomeTuber", ""),
       MkItem(4, BatchTitles[4], OwnUrl(4), "youtube", 100, ts[4], "SomeTuber", ""),
       MkItem(5, BatchTitles[5], OwnUrl(5), "news", 0, ts[5], outlet, "") >>

\* every record has no timestamp, is fresh, between the two age thresholds
\* or older than both; the article's source label is a major outlet or not
InitBatch ==
    /\ \E ts \in [1..5 -> {<<>>, <<NowHour>>,
                            <<NowHour - (PREFERRED_CONTENT_AGE_HOURS + 1)>>,
                            <<NowHour - (FALLBACK_CONTENT_AGE_HOURS + 1)>>}],
          swap \in BOOLEAN, outlet \in {"IGN", "someone"} :
          all_content = Batch(ts, swap, outlet)
    /\ failed_sources = {} /\ unique_content = <<>> /\ top_items = <<>>
    /\ p_ranked = <<>> /\ rank_writes = [i \in 1..5 |-> 0]
    /\ pdist \in QuotaTables
    /\ ppc = "process"
    /\ DedupIdle /\ SelIdle /\ ScoreIdle /\ SendIdle /\ FmtIdle

NextBatch == ProcessDedup \/ ProcessRankItem \/ ProcessSelect

SpecBatch == InitBatch /\ [][NextBatch]_vars

PipeDone == ppc = "done"

\* the place of the record with identity i in the result (0: not in it)
PlaceOf(i) ==
    IF \E k \in 1..Len(top_items) : top_items[k].id = i
    THEN CHOOSE k \in 1..Len(top_items) : top_items[k].id = i
    ELSE 0

\* the forum post with the given engagement
PostWith(engagement) ==
    CHOOSE i \in 1..2 : all_content[i].score = engagement

\* C11: for two forum posts (engagement 600 and 50), two videos (50000 and
\* 100 views) and one article, with distinct URLs, dissimilar titles and
\* any timestamps, the pipeline with target count 5 returns all five
\* records in descending order of rank_score, the 600-engagement post
\* before the 50-engagement one.
C11_MixedBatch ==
    PipeDone =>
        /\ Len(top_items) = 5
        /\ \A i \in 1..5 : PlaceOf(i) > 0
        /\ \A k \in 1..(Len(top_items) - 1) :
              ~ScoreBelow(top_items[k].rank_score, top_items[k + 1].rank_score)
        /\ PlaceOf(PostWith(600)) < PlaceOf(PostWith(50))

\* the batch went through with the high-engagement post at its weakest:
\* the 600 post is older than both thresholds and comes second in fetch
\* order, the 50 post is fresh
C11_Witness ==
    /\ PipeDone
    /\ Len(top_items) = 5
    /\ all_content[2].score = 600
    /\ all_content[2].timestamp = <<NowHour - (FALLBACK_CONTENT_AGE_HOURS + 1)>>
    /\ all_content[1].timestamp = <<NowHour>>
    /\ PlaceOf(2) < PlaceOf(1)

-----------------------------------------------------------------------------
(* discord/webhook_sender.py: send_digest                                  *)

GameKey(i) == CASE i = 1 -> "g1" [] i = 2 -> "g2" [] i = 3 -> "g3" [] OTHER -> "g4"

\* game_digests as main builds it: the games in order, then "trending"
\* (a caller may leave it out)
DigestKeys ==
    UNION {{[i \in 1..n |-> GameKey(i)],
            [i \in 1..(n + 1) |-> IF i <= n THEN GameKey(i) ELSE "trending"]} :
           n \in 0..MaxGames}

KeySet(keys) == {keys[i] : i \in 1..Len(keys)}

RECURSIVE Without(_, _)
Without(keys, k) ==
    IF keys = <<>> THEN <<>>
    ELSE IF Head(keys) = k THEN Without(Tail(keys), k)
    ELSE <<Head(keys)>> \o Without(Tail(keys), k)

\* trending first, then the other sections in dict order
SectionOrder(keys) ==
    (IF "trending" \in KeySet(keys) THEN <<"trending">> ELSE <<>>)
    \o Without(keys, "trending")

InitSend ==
    /\ digest_keys \in DigestKeys
    /\ malformed \in SUBSET KeySet(digest_keys)
    /\ section_order = <<>> /\ sec_i = 0 /\ attempt = 0
    /\ header_sent = FALSE
    /\ attempts = [k \in KeySet(digest_keys) |-> 0]
    /\ outcome = [k \in KeySet(digest_keys) |-> "none"]
    /\ send_result = "none"
    /\ wpc = "header"
    /\ DedupIdle /\ SelIdle /\ ScoreIdle /\ PipeIdle /\ FmtIdle

\* the header post (a failure is logged and ignored), then section_order
SendHeader ==
    /\ wpc = "header"
    /\ header_sent' \in BOOLEAN
    /\ section_order' = SectionOrder(digest_keys)
    /\ sec_i' = 1
    /\ wpc' = "sections"
    /\ UNCHANGED <<digest_keys, malformed, attempt, attempts, outcome,
                   send_result>>
    /\ UNCHANGED notSend

\* `for game_id in section_order`: digest["name"], format the message,
\* start the retry loop
SendSection ==
    /\ wpc = "sections" /\ sec_i <= Len(section_order)
    /\ section_order[sec_i] \notin malformed
    /\ attempt' = 1
    /\ wpc' = "post"
    /\ UNCHANGED <<digest_keys, malformed, section_order, sec_i, header_sent,
                   attempts, outcome, send_result>>
    /\ UNCHANGED notSend

\* digest["name"] or format_game_message raises, before any post of the
\* section: the outer except clause returns False
SectionRaises ==
    /\ wpc = "sections" /\ sec_i <= Len(section_order)
    /\ section_order[sec_i] \in malformed
    /\ outcome' = [outcome EXCEPT ![section_order[sec_i]] = "error"]
    /\ send_result' = "false"
    /\ wpc' = "done"
    /\ UNCHANGED <<digest_keys, malformed, section_order, sec_i, attempt,
                   header_sent, attempts>>
    /\ UNCHANGED notSend

\* the post succeeded: `break`, then the next section
PostOk ==
    /\ wpc = "post"
    /\ attempts' = [attempts EXCEPT ![section_order[sec_i]] = @ + 1]
    /\ outcome' = [outcome EXCEPT ![section_order[sec_i]] = "sent"]
    /\ sec_i' = sec_i + 1
    /\ wpc' = "sections"
    /\ UNCHANGED <<digest_keys, malformed, section_order, attempt,
                   header_sent, send_result>>
    /\ UNCHANGED notSend

\* RequestException with attempts left: sleep and retry
PostFailsRetry ==
    /\ wpc = "post" /\ attempt < MAX_RETRIES
    /\ attempts' = [attempts EXCEPT ![section_order[sec_i]] = @ + 1]
    /\ attempt' = attempt + 1
    /\ UNCHANGED <<digest_keys, malformed, section_order, sec_i, header_sent,
                   outcome, send_result, wpc>>
    /\ UNCHANGED notSend

\* RequestException on the last attempt: `return False`
PostFailsLast ==
    /\ wpc = "post" /\ ~(attempt < MAX_RETRIES)
    /\ attempts' = [attempts EXCEPT ![section_order[sec_i]] = @ + 1]
    /\ outcome' = [outcome EXCEPT ![section_order[sec_i]] = "failed"]
    /\ send_result' = "false"
    /\ wpc' = "done"
    /\ UNCHANGED <<digest_keys, malformed, section_order, sec_i, attempt,
                   header_sent>>
    /\ UNCHANGED notSend

\* any other exception: the outer except clause returns False
PostRaises ==
    /\ wpc = "post"
    /\ attempts' = [attempts EXCEPT ![section_order[sec_i]] = @ + 1]
    /\ outcome' = [outcome EXCEPT ![section_order[sec_i]] = "error"]
    /\ send_result' = "false"
    /\ wpc' = "done"
    /\ UNCHANGED <<digest_keys, malformed, section_order, sec_i, attempt,
                   header_sent>>
    /\ UNCHANGED notSend

\* every section was sent: `return True`
SendReturnsTrue ==
    /\ wpc = "sections" /\ sec_i > Len(section_order)
    /\ send_result' = "true"
    /\ wpc' = "done"
    /\ UNCHANGED <<digest_keys, malformed, section_order, sec_i, attempt,
                   header_sent, attempts, outcome>>
    /\ UNCHANGED notSend

NextSend ==
    \/ SendHeader \/ SendSection \/ SectionRaises \/ PostOk \/ PostFailsRetry
    \/ PostFailsLast \/ PostRaises \/ SendReturnsTrue

SpecSend == InitSend /\ [][NextSend]_vars

-----------------------------------------------------------------------------
(* Properties of send_digest (checked under SpecSend)                      *)

SendDone == wpc = "done"

\* C10: when a section fails on every retry, send_digest still attempts
\* each of the sections after it.
C10_FailureConfined ==
    SendDone =>
        \A k \in 1..Len(section_order) :
            outcome[section_order[k]] = "failed" =>
                \A m \in (k + 1)..Len(section_order) :
                    attempts[section_order[m]] >= 1

\* C20: send_digest posts each section at least once and at most
\* MAX_RETRIES times, tries again only after a failed post and never after
\* a successful one, and returns True only when every section ended with
\* a successful post, whether the header post failed or not (the result is
\* decided by the sections alone).
C20_RetryDiscipline ==
    /\ [](SendDone =>
             /\ \A s \in KeySet(digest_keys) :
                   attempts[s] >= 1 /\ attempts[s] <= MAX_RETRIES
             /\ send_result = "true"
                   <=> \A s \in KeySet(digest_keys) : outcome[s] = "sent")
    /\ [][\A s \in KeySet(digest_keys) :
              attempts'[s] > attempts[s] => outcome[s] = "none"]_vars

-----------------------------------------------------------------------------
(* discord/webhook_sender.py: format_game_message                          *)

MAX_MESSAGE_LENGTH == 2000
MAX_TITLE_LENGTH == 100

\* str(n) for n >= 0
DigitChars == <<"0", "1", "2", "3", "4", "5", "6", "7", "8", "9">>

RECURSIVE Digits(_)
Digits(n) ==
    IF n < 10 THEN DigitChars[n + 1]
    ELSE Digits(n \div 10) \o DigitChars[(n % 10) + 1]

\* the text of n copies of the character c
RECURSIVE Rep(_, _)
Rep(c, n) ==
    IF n = 0 THEN ""
    ELSE LET half == Rep(c, n \div 2)
         IN  half \o half \o (IF n % 2 = 1 THEN c ELSE "")


\* f"**{game_name} - Top {len(items)}**\n\n"
MessageHeader(name, xs) == "**" \o name \o " - Top " \o Digits(Len(xs)) \o "**\n\n"

\* the title, stripped and cut to MAX_TITLE_LENGTH with "..."
ShownTitle(item) ==
    LET title == Strip(Get(item, "title", "No title"))
    IN  IF Len(title) > MAX_TITLE_LENGTH
        THEN SubSeq(title, 1, MAX_TITLE_LENGTH - 3) \o "..."
        ELSE title

\* f"{idx}. [{source}] {title} - <{url}>\n"
ItemLine(n, item) ==
    Digits(n) \o ". [" \o Get(item, "source", "Unknown") \o "] "
    \o ShownTitle(item) \o " - <" \o Get(item, "url", "") \o ">\n"

\* f"... and {len(items) - idx + 1} more items"
MoreSuffix(xs, n) == "... and " \o Digits(Len(xs) - n + 1) \o " more items"

\* game_name and is_trending as send_digest passes them: the names of GAMES
\* for the game sections, "Top Gaming News" for the section "trending"
FmtNames == {"Battlefield 6", "Arc Raiders", "Top Gaming News"}

\* The item lists of the formatter's runs: none, or a first item whose URL
\* is short, fills the message up to around the 20 characters the code
\* reserves for the suffix, or is longer than the whole limit, with a title
\* below or above MAX_TITLE_LENGTH, followed by 0, 1, 9 or MaxMore short
\* items.
FmtItem(i, title, len) ==
    MkItem(i, title, Rep("u", len), "news", 0, <<NowHour>>, "IGN", "")

FmtLists ==
    {<<>>} \cup
    {<<FmtItem(1, t, len)>> \o [i \in 1..n |-> FmtItem(i + 1, "clip", 30)] :
        t \in {"clip", " " \o Rep("t", MAX_TITLE_LENGTH + 1)},
        len \in {30, 1931, 1932, 1933, 1934, 1952, 1953, 3000},
        n \in {0, 1, 9, MaxMore}}

InitFmt ==
    /\ game_name \in FmtNames
    /\ fmt_items \in FmtLists
    /\ is_trending = (game_name = "Top Gaming News")
    /\ message = "" /\ fmt_idx = 0 /\ fpc = "start"
    /\ DedupIdle /\ SelIdle /\ ScoreIdle /\ PipeIdle /\ SendIdle

\* `if not items:` the header and the fallback text
FmtEmpty ==
    /\ fpc = "start" /\ fmt_items = <<>>
    /\ message' = MessageHeader(game_name, fmt_items)
                  \o (IF is_trending THEN "No trending news found this week."
                      ELSE "No new content found this week.")
    /\ fpc' = "done"
    /\ UNCHANGED <<game_name, fmt_items, is_trending, fmt_idx>>
    /\ UNCHANGED notFmt

\* message = header; the loop starts at idx 1
FmtHeader ==
    /\ fpc = "start" /\ fmt_items # <<>>
    /\ message' = MessageHeader(game_name, fmt_items)
    /\ fmt_idx' = 1
    /\ fpc' = "loop"
    /\ UNCHANGED <<game_name, fmt_items, is_trending>>
    /\ UNCHANGED notFmt

\* the line fits: message += line
FmtAppend ==
    /\ fpc = "loop" /\ fmt_idx <= Len(fmt_items)
    /\ LET line == ItemLine(fmt_idx, fmt_items[fmt_idx])
       IN  /\ ~(Len(message) + Len(line) > MAX_MESSAGE_LENGTH)
           /\ message' = message \o line
    /\ fmt_idx' = fmt_idx + 1
    /\ UNCHANGED <<game_name, fmt_items, is_trending, fpc>>
    /\ UNCHANGED notFmt

\* the line does not fit: the suffix when more than 20 characters are left,
\* then `break` and the return
FmtCut ==
    /\ fpc = "loop" /\ fmt_idx <= Len(fmt_items)
    /\ LET line == ItemLine(fmt_idx, fmt_items[fmt_idx])
           remaining == MAX_MESSAGE_LENGTH - Len(message) - 20
       IN  /\ Len(message) + Len(line) > MAX_MESSAGE_LENGTH
           /\ message' = IF remaining > 0
                         THEN message \o MoreSuffix(fmt_items, fmt_idx)
                         ELSE message
    /\ fpc' = "done"
    /\ UNCHANGED <<game_name, fmt_items, is_trending, fmt_idx>>
    /\ UNCHANGED notFmt

\* the loop is over: return message
FmtReturn ==
    /\ fpc = "loop" /\ fmt_idx > Len(fmt_items)
    /\ fpc' = "done"
    /\ UNCHANGED <<game_name, fmt_items, is_trending, message, fmt_idx>>
    /\ UNCHANGED notFmt

NextFmt == FmtEmpty \/ FmtHeader \/ FmtAppend \/ FmtCut \/ FmtReturn

SpecFmt == InitFmt /\ [][NextFmt]_vars

FmtDone == fpc = "done"

\* C21: the message format_game_message returns has at most 2000
\* characters, for every section name and item list, also when one line is
\* longer than the limit and when the "... and N more items" suffix is
\* appended.
C21_MessageWithinLimit == FmtDone => Len(message) <= MAX_MESSAGE_LENGTH

-----------------------------------------------------------------------------
(* Properties of select_top_items (checked under SpecSelect)               *)

SelDone == spc = "done"

KnownKinds == {"news", "reddit", "youtube"}

\* the number of items of a source kind in a sequence of items
KindCount(xs, kind) == Cardinality({i \in 1..Len(xs) : xs[i].source_type = kind})

SelectedObjects == {selected[k].id : k \in 1..Len(selected)}

\* C1: select_top_items returns exactly min(count, size of the pool) items,
\* for every count >= 0, quota table and deduplicated pool.
C1_CountContract == SelDone => Len(selected) = Min2(count, Len(pool))

\* C6: no item is returned twice, and items whose URL is empty are told
\* apart by object identity: two distinct pool items with an empty URL are
\* both selected when the count leaves room for the whole pool.
C6_EmptyUrlsAreDistinctItems ==
    SelDone =>
        /\ \A k, m \in 1..Len(selected) : k # m => selected[k].id # selected[m].id
        /\ \A i, j \in 1..Len(pool) :
              (/\ i # j
               /\ UrlOrEmpty(pool[i]) = ""
               /\ UrlOrEmpty(pool[j]) = ""
               /\ count >= Len(pool))
              => (i \in SelectedObjects /\ j \in SelectedObjects)

\* the quota target of a kind, from the configured range
MidPoint(kind) == (dist[kind][1] + dist[kind][2]) \div 2

\* every source kind has at least its quota target of items in the pool
QuotaAvailable == \A kind \in KnownKinds : KindCount(pool, kind) >= MidPoint(kind)

\* C5 as stated: when every source kind has at least its quota target of
\* items in the pool, the result holds at least the range minimum of each
\* kind present in the pool, for every count and quota table.
C5_QuotaMinimum ==
    (SelDone /\ QuotaAvailable) =>
        \A kind \in KnownKinds :
            KindCount(pool, kind) > 0 => KindCount(selected, kind) >= dist[kind][1]

\* every pool item has a URL of its own: none is empty or missing, no two
\* are equal (items with an empty URL are the matter of C6)
OwnUrls ==
    \A i \in 1..Len(pool) :
        /\ "url" \notin pool[i].absent
        /\ pool[i].url # ""
        /\ \A j \in 1..Len(pool) : j # i => pool[j].url # pool[i].url

\* the quota targets of the kinds served before a kind in the order news,
\* reddit, youtube
EarlierTargets(kind) ==
    CASE kind = "news" -> 0
      [] kind = "reddit" -> MidPoint("news")
      [] OTHER -> MidPoint("news") + MidPoint("reddit")

\* C5 as amended: when every kind has at least its quota target of items in
\* the pool and every item has a URL of its own, the result holds at least
\* the range minimum of a kind exactly when the count is at least the sum
\* of the quota targets of the kinds served before it plus that minimum;
\* with a smaller count a kind whose minimum is 1 or more gets fewer.
C5_QuotaMinimumWhenSlotsLeft ==
    (SelDone /\ QuotaAvailable /\ OwnUrls) =>
        \A kind \in KnownKinds :
            /\ count >= EarlierTargets(kind) + dist[kind][1]
                  => KindCount(selected, kind) >= dist[kind][1]
            /\ (dist[kind][1] >= 1 /\ count < EarlierTargets(kind) + dist[kind][1])
                  => KindCount(selected, kind) < dist[kind][1]

\* the quota decides: a kind served after another one gets its minimum with
\* the last slots of a count that is just large enough, while an item with
\* a higher score than its item is left out
C5_Witness ==
    /\ SelDone /\ QuotaAvailable /\ OwnUrls
    /\ Len(pool) > count
    /\ \E kind \in KnownKinds :
          /\ dist[kind][1] >= 1
          /\ EarlierTargets(kind) >= 1
          /\ count = EarlierTargets(kind) + dist[kind][1]
          /\ KindCount(selected, kind) >= dist[kind][1]
          /\ \E k \in 1..Len(selected), i \in 1..Len(ranked_items) :
                /\ selected[k].source_type = kind
                /\ ranked_items[i].id \notin SelectedObjects
                /\ ScoreBelow(selected[k].rank_score, ranked_items[i].rank_score)

\* a sequence of ranked items in non-increasing order of rank_score
Descending(xs) ==
    \A k \in 1..(Len(xs) - 1) : ~ScoreBelow(xs[k].rank_score, xs[k + 1].rank_score)

\* what the first pass selected, in insertion order
QuotaSelection ==
    QuotaPass(SelectStart(count), target_distribution, by_source, 1).selected

\* the selection as the two passes leave it, before the final sort
UnsortedSelection ==
    FillPass(QuotaPass(SelectStart(count), target_distribution, by_source, 1),
             ranked_items).selected

\* C16: the sequence select_top_items returns is in non-increasing order
\* of rank_score, for every pool, count and quota table.
C16_ResultSorted == SelDone => Descending(selected)

\* the passes left the selection out of order (a stale article taken
\* before a better forum post) and the call returned it
C16_Witness ==
    /\ SelDone /\ ranked_items # <<>>
    /\ Len(selected) >= 2
    /\ ~Descending(UnsortedSelection)

QuotaObjects == {QuotaSelection[k].id : k \in 1..Len(QuotaSelection)}

\* the items the second pass added, and the items left unselected
FillAdded == {k \in 1..Len(selected) : selected[k].id \notin QuotaObjects}
LeftOut == {i \in 1..Len(ranked_items) : ranked_items[i].id \notin SelectedObjects}

\* C17: when the first pass selected fewer than count items, the second
\* pass adds items of the ranked pool in descending order, skipping only
\* items already selected, until count items are selected or the pool is
\* exhausted; so no item left unselected has a higher rank_score than an
\* item the second pass added.
C17_FillPass ==
    (SelDone /\ ranked_items # <<>> /\ Len(QuotaSelection) < count) =>
        /\ Len(selected) = count \/ LeftOut = {}
        /\ \A i \in LeftOut : \A k \in FillAdded :
              ~ScoreBelow(selected[k].rank_score, ranked_items[i].rank_score)

\* C22: from the start of the first pass to the return, remaining_slots
\* is count minus the number of selected items and is never negative; so
\* no more than count items are ever selected and the final cut to count
\* removes nothing.
C22_RemainingSlots ==
    (spc \in {"quota", "fill", "sort", "done"} /\ ranked_items # <<>>) =>
        /\ remaining_slots = count - Len(selected)
        /\ remaining_slots >= 0
        /\ Len(selected) <= count

\* a call returned that filled every slot from a pool with more items
\* than slots
C22_Witness ==
    /\ SelDone
    /\ count >= 2 /\ Len(pool) > count
    /\ Len(selected) = count /\ remaining_slots = 0

Ranked == spc # "start"

\* C25: rank_content returns a permutation of its input in non-increasing
\* order of rank_score in which items of equal rank_score keep their input
\* order (identities are input positions).
C25_StablePermutation ==
    Ranked =>
        /\ Len(ranked_items) = Len(pool)
        /\ \A i \in 1..Len(pool) :
              RankItem(pool[i], OfficialSources)
                  \in {ranked_items[k] : k \in 1..Len(ranked_items)}
        /\ Descending(ranked_items)
        /\ \A k, m \in 1..Len(ranked_items) :
              (k < m /\ ranked_items[k].rank_score = ranked_items[m].rank_score)
                  => ranked_items[k].id < ranked_items[m].id

\* a pool was ranked in which the sort moved an item forward past two
\* items of equal score, which kept their order
C25_Witness ==
    /\ Ranked
    /\ Len(ranked_items) = 3
    /\ ranked_items[1].id = 3
    /\ ranked_items[2].id = 1 /\ ranked_items[3].id = 2
    /\ ranked_items[2].rank_score = ranked_items[3].rank_score
    /\ ScoreBelow(ranked_items[2].rank_score, ranked_items[1].rank_score)

-----------------------------------------------------------------------------
(* deduplicate on two records whose titles are at, above and below the     *)
(* similarity threshold                                                    *)

\* the no-break space U+00A0
NoBreakSpace == " "

\* 20-character titles: the second shares 17 characters with the first
\* (ratio 34/40, exactly the threshold), the third 16 (32/40); the fourth
\* is the first in capitals behind a space; the fifth shares nothing; the
\* sixth is in capitals, three of them outside ASCII, behind a no-break
\* space, and the seventh is its normalised form (with the final sigma)
PairTitles ==
    {"abcdefghijklmnopqrst", "abcdefghijklmnopq123", "abcdefghijklmnop4567",
     " ABCDEFGHIJKLMNOPQRST", "xy",
     NoBreakSpace \o "POKÉMON ÀBCDEFGHIJΣ", "pokémon àbcdefghijς"}

\* titles of 200 and 201 characters: the matcher leaves their repeated
\* characters out of its index; the second is the first behind one more
\* character, the third the first with one more character at its end
LongTitles ==
    {Rep("ab", 100), "x" \o Rep("ab", 100), Rep("ab", 100) \o "c"}

\* URLs that differ or are empty
PairUrls == {<<"", "">>, <<"", "u1">>, <<"u1", "">>, <<"u1", "u2">>}

InitPair ==
    /\ \E t \in (PairTitles \X PairTitles) \cup (LongTitles \X LongTitles),
          u \in PairUrls :
          items = << MkItem(1, t[1], u[1], "news", 0, <<>>, "IGN", ""),
                     MkItem(2, t[2], u[2], "news", 0, <<>>, "IGN", "") >>
    /\ idx = 0
    /\ unique_items = <<>>
    /\ seen_urls = {}
    /\ seen_titles = <<>>
    /\ dpc = "start"
    /\ SelIdle /\ ScoreIdle /\ PipeIdle /\ SendIdle /\ FmtIdle

NextPair == DedupEnter \/ DedupIterate \/ DedupReturn

SpecPair == InitPair /\ [][NextPair]_vars

PairDone == dpc = "done" /\ Len(items) = 2

\* the similarity ratio of the two normalized titles, <<num, den>>
PairRatio == Ratio(NormTitle(items[1].title), NormTitle(items[2].title))

AtOrAboveThreshold == PairRatio[1] * ThresholdDen >= ThresholdNum * PairRatio[2]

\* C15: of two records with different or empty URLs the second is dropped
\* when the similarity ratio of the normalized titles is at least the
\* threshold (exactly the threshold included); when it is strictly below
\* and the normalized titles differ, both survive.
C15_ThresholdBoundary ==
    PairDone =>
        /\ AtOrAboveThreshold => unique_items = <<items[1]>>
        /\ (~AtOrAboveThreshold
            /\ NormTitle(items[1].title) # NormTitle(items[2].title))
              => unique_items = items

\* two titles whose ratio is exactly the threshold went through, and the
\* second was dropped
C15_Witness ==
    /\ PairDone
    /\ PairRatio[1] * ThresholdDen = ThresholdNum * PairRatio[2]
    /\ unique_items = <<items[1]>>

-----------------------------------------------------------------------------
(* Properties of deduplicate (checked under SpecDedup)                     *)

DedupDone == dpc = "done"

\* the positions of the input items that are in unique_items
KeptIds == {unique_items[k].id : k \in 1..Len(unique_items)}

SameUrl(i, j) ==
    /\ UrlOrEmpty(items[i]) # ""
    /\ UrlOrEmpty(items[i]) = UrlOrEmpty(items[j])

\* C2: of two input items that share a non-empty URL at most one is in the
\* output, and if one is in the output it is the first one in input order
\* (so the later one of the two is never in the output).
C2_FirstUrlSurvives ==
    DedupDone =>
        \A i, j \in 1..Len(items) :
            (i < j /\ SameUrl(i, j)) =>
                /\ ~(i \in KeptIds /\ j \in KeptIds)
                /\ j \notin KeptIds

\* C3: deduplicate is idempotent: deduplicating the output again returns
\* the output unchanged.
C3_Idempotent == DedupDone => Deduplicate(unique_items) = unique_items

C3_Witness ==
    /\ DedupDone
    /\ Len(unique_items) >= 2
    /\ Len(unique_items) < Len(items)

\* C4: the output of deduplicate is a subsequence of its input: every
\* output item is the input item at its position, and the surviving items
\* keep their relative input order.  It holds after every iteration.
C4_Subsequence ==
    /\ \A k \in 1..Len(unique_items) :
          /\ unique_items[k].id \in 1..Len(items)
          /\ unique_items[k] = items[unique_items[k].id]
    /\ \A k \in 1..(Len(unique_items) - 1) :
          unique_items[k].id < unique_items[k + 1].id

C4_Witness ==
    /\ DedupDone
    /\ \E k \in 1..(Len(unique_items) - 1) :
          unique_items[k + 1].id > unique_items[k].id + 1

\* C7 as stated: a record with a non-empty URL is dropped only when an
\* earlier kept record has the same URL (title similarity decides only for
\* records whose URL is empty).
C7_DroppedOnlyByUrl ==
    DedupDone =>
        \A j \in 1..Len(items) :
            (UrlOrEmpty(items[j]) # "" /\ j \notin KeptIds) =>
                \E i \in 1..(j - 1) : i \in KeptIds /\ SameUrl(i, j)

\* C7 as amended: a record is dropped exactly when an earlier kept record
\* has the same non-empty URL or a title similar to its own; the title
\* check is made for every record, whether its URL is empty or not.
C7_DroppedByUrlOrTitle ==
    DedupDone =>
        \A j \in 1..Len(items) :
            j \notin KeptIds <=>
                \E i \in 1..(j - 1) :
                    /\ i \in KeptIds
                    /\ \/ SameUrl(i, j)
                       \/ are_titles_similar(items[j].title, items[i].title)

\* a record with a non-empty URL that no kept record shares was dropped
C7_Witness ==
    /\ DedupDone
    /\ \E j \in 1..Len(items) :
          /\ UrlOrEmpty(items[j]) # ""
          /\ j \notin KeptIds
          /\ \A i \in 1..(j - 1) : i \in KeptIds => ~SameUrl(i, j)

\* C23: in the output of deduplicate no two items share a non-empty URL,
\* and no item's title is similar to the title of an item that precedes it
\* in the output.
C23_OutputPairwiseDistinct ==
    DedupDone =>
        \A k, m \in 1..Len(unique_items) :
            k < m =>
                /\ ~(/\ UrlOrEmpty(unique_items[k]) # ""
                     /\ UrlOrEmpty(unique_items[k]) = UrlOrEmpty(unique_items[m]))
                /\ ~are_titles_similar(unique_items[m].title, unique_items[k].title)

\* a call returned two items with non-empty URLs after dropping an item
\* that had the URL of a kept one
C23_Witness ==
    /\ DedupDone
    /\ \E k, m \in 1..Len(unique_items) :
          k < m /\ UrlOrEmpty(unique_items[k]) # "" /\ UrlOrEmpty(unique_items[m]) # ""
    /\ \E j \in 1..Len(items) :
          j \notin KeptIds /\ \E i \in 1..(j - 1) : i \in KeptIds /\ SameUrl(i, j)

\* the input without the item at position i
RemoveAt(xs, i) == SubSeq(xs, 1, i - 1) \o SubSeq(xs, i + 1, Len(xs))

\* item j has the URL or a similar title of item i
Resembles(j, i) ==
    SameUrl(i, j) \/ are_titles_similar(items[j].title, items[i].title)

\* C24: a dropped item leaves no trace.  At every point of the loop the
\* recorded URLs and titles are those of the kept items only; at the
\* return, removing any dropped item from the input gives the same output,
\* and an item that resembles only dropped items is kept.
C24_DroppedLeavesNoTrace ==
    /\ dpc \in {"loop", "done"} =>
          /\ seen_titles = [k \in 1..Len(unique_items) |-> unique_items[k].title]
          /\ seen_urls = {UrlOrEmpty(unique_items[k]) : k \in 1..Len(unique_items)}
                             \ {""}
    /\ DedupDone =>
          /\ \A i \in 1..Len(items) :
                i \notin KeptIds => Deduplicate(RemoveAt(items, i)) = unique_items
          /\ \A j \in 1..Len(items) :
                (\A i \in 1..(j - 1) : i \in KeptIds => ~Resembles(j, i))
                    => j \in KeptIds

\* a call returned in which a kept item resembles an earlier, dropped item
C24_Witness ==
    /\ DedupDone
    /\ \E i, j \in 1..Len(items) :
          /\ i < j /\ i \notin KeptIds /\ j \in KeptIds
          /\ are_titles_similar(items[j].title, items[i].title)

-----------------------------------------------------------------------------
(* The classifier on the articles of the configured feeds (SpecScore)      *)

\* an article as the news fetcher labels it, which matches neither of the
\* two official rules
FeedArticle ==
    /\ sc_item.source_type = "news"
    /\ sc_item.source \in FeedSources
    /\ ~ClassifierRules(sc_item, sc_official)[1][1]
    /\ ~ClassifierRules(sc_item, sc_official)[2][1]

\* C26: an article of any of the six configured feeds, labelled with the
\* upper-cased feed name and matching neither official rule, is classified
\* major_news.
C26_FeedsAreMajorNews ==
    (Typed /\ FeedArticle) => sc_type = "major_news"

=============================================================================
